---- MODULE Spec2Model ----
(***************************************************************************)
(* Command arbitration (DGLabController) and plugin event bus              *)
(* (EventManager) of DG-LAB_linkALL.                                       *)
(*                                                                         *)
(* Time is counted in ticks of 0.05 s, the greatest common divisor of the  *)
(* cooldown table (0, 0.1, 0.05, 0.2 s), so that every comparison of the   *)
(* code on time.time() values is a comparison of integers.                 *)
(***************************************************************************)
EXTENDS Integers, Sequences, FiniteSets, TLC

VARIABLES
    now,                          \* the value time.time() returns
    command_queue,                \* asyncio.PriorityQueue: the heap list
    command_sources,              \* dict key -> last command time
    enable_gui_commands,
    enable_panel_commands,
    enable_interaction_commands,
    enable_interaction_mode_a,
    enable_interaction_mode_b,
    last_strength,                \* None or the last StrengthData
    pc_dispatch,                  \* where process_commands is suspended
    transport_call,               \* client.set_strength call in flight
    n_commands,                   \* ChannelCommand objects built so far
    last_taken,                   \* history: the command the dispatcher took last
    n_executed,                   \* history: commands given to execute_command
    gets_since_put,               \* history: gets since the last put
    last_add,                     \* history: the last add_command call
    last_accepted,                \* history: (class, source) -> last accepted time
    taken,                        \* history: id(command) -> times the dispatcher took it
    n_transport_errors,           \* history: transport calls that raised
    dispatched,                   \* history: (class, source_id) -> last dispatch time
    last_pass,                    \* history: the last pass of process_commands
    pc_cleanup,                   \* where cleanup is: not called, awaiting, returned
    fire_mode_lock,               \* asyncio.Lock: the holder (none or one) and the waiters, in order
    fire_mode_active,
    fire_mode_origin_strength_a,
    fire_mode_origin_strength_b,
    fire,                         \* the strength_fire_mode invocations, by number
    plugin_call,                  \* client.set_strength call in flight for a plugin
    pulse_last_update_time,       \* channel -> time of its last waveform push
    pulse_wake,                   \* when the maintenance loop's sleep(1) ends
    last_poll,                    \* history: what the last maintenance poll saw and did
    last_load,                    \* history: the last _load_plugin_from_file call
    enable_calls,                 \* the enable_plugin calls followed step by step
    mode_toggle_timer,            \* the set_mode_timer_handle task, if one was created
    presses,                      \* history: the set_mode(True, ...) calls
    event_handlers,               \* EventManager._event_handlers
    emission,                     \* the emit coroutine in progress, or None
    calls,                        \* history: handlers invoked by the emission
    n_handlers,                   \* handler callables created so far
    plugins,                      \* PluginManager.plugins: registry key -> id(plugin)
    instances,                    \* the Plugin objects built so far, by id(plugin)
    plugin_events,                \* EventManager._plugin_events
    tasks,                        \* coroutines scheduled by asyncio.create_task
    ever_enabled,                 \* history: the plugins that have been enabled
    last_call                     \* history: the last call of a PluginManager method

pulseVars == <<pulse_last_update_time, pulse_wake, last_poll>>

enableVars == <<enable_calls>>

timerVars == <<mode_toggle_timer, presses>>

restVars == <<last_load, enableVars, timerVars>>

sideVars == <<fire_mode_lock, fire_mode_active, fire_mode_origin_strength_a,
              fire_mode_origin_strength_b, fire, plugin_call, pulseVars, restVars>>

\* The attributes of the controller that existed before the side groups.
coreVars == <<now, command_queue, command_sources, enable_gui_commands,
              enable_panel_commands, enable_interaction_commands,
              enable_interaction_mode_a, enable_interaction_mode_b,
              last_strength, pc_dispatch, transport_call, n_commands,
              last_taken, n_executed, gets_since_put, last_add, last_accepted,
              taken, n_transport_errors, dispatched, last_pass, pc_cleanup>>

ctlVars == <<now, command_queue, command_sources, enable_gui_commands,
             enable_panel_commands, enable_interaction_commands,
             enable_interaction_mode_a, enable_interaction_mode_b,
             last_strength, pc_dispatch, transport_call, n_commands,
             last_taken, n_executed, gets_since_put, last_add, last_accepted,
             taken, n_transport_errors, dispatched, last_pass, pc_cleanup, sideVars>>

busVars == <<event_handlers, emission, calls, n_handlers>>

plgVars == <<plugins, instances, plugin_events, tasks, ever_enabled, last_call>>

vars == <<ctlVars, busVars, plgVars>>

None == "None"

(***************************************************************************)
(* Bounds of the exploration.                                              *)
(***************************************************************************)
StartTime == 4
MaxTicks == 3
MaxCommands == 3
MaxLimit == 1
MaxDelta == 2
MaxHandlers == 3
MaxPlugins == 2
MaxInvocations == 2
MaxEnableCalls == 2
MaxPresses == 2

(***************************************************************************)
(* Command classes, channels, operations.                                  *)
(***************************************************************************)
GUI_COMMAND == "GUI_COMMAND"
PANEL_COMMAND == "PANEL_COMMAND"
INTERACTION_COMMAND == "INTERACTION_COMMAND"
TON_COMMAND == "TON_COMMAND"

CommandType == {GUI_COMMAND, PANEL_COMMAND, INTERACTION_COMMAND, TON_COMMAND}

\* CommandType.<member>.value: the numeric rank of a command class.
CommandTypeValue(command_type) ==
    CASE command_type = GUI_COMMAND -> 0
      [] command_type = PANEL_COMMAND -> 1
      [] command_type = INTERACTION_COMMAND -> 2
      [] command_type = TON_COMMAND -> 3

Channel == {"A", "B"}

SET_TO == "SET_TO"
INCREASE == "INCREASE"
DECREASE == "DECREASE"

StrengthOperationType == {SET_TO, INCREASE, DECREASE}

\* self.source_cooldowns, in ticks of 0.05 s.
source_cooldowns(command_type) ==
    CASE command_type = GUI_COMMAND -> 0
      [] command_type = PANEL_COMMAND -> 2
      [] command_type = INTERACTION_COMMAND -> 1
      [] command_type = TON_COMMAND -> 4

\* The source_id arguments callers pass; None is the default of add_command.
SourceIds == {None, "panel"}

(***************************************************************************)
(* ChannelCommand                                                          *)
(***************************************************************************)
\* str(uuid.uuid4()): a string no other call returns.
Uuid4(n) == "uuid4-" \o ToString(n)

\* ChannelCommand.__init__; id is the identity of the object, the n-th built
ChannelCommand(command_type, channel, operation, value, source_id, timestamp, n) ==
    [id |-> n,
     command_type |-> command_type,
     channel |-> channel,
     operation |-> operation,
     value |-> value,
     source_id |-> IF source_id = None \/ source_id = "" THEN Uuid4(n) ELSE source_id,
     timestamp |-> timestamp]

\* A plausible slip: the class ranks compared the wrong way round.
lt_reversed(self, other) ==
    IF CommandTypeValue(self.command_type) # CommandTypeValue(other.command_type)
    THEN CommandTypeValue(self.command_type) > CommandTypeValue(other.command_type)
    ELSE self.timestamp < other.timestamp

\* A plausible slip: the class left out of the comparison.
lt_timestamp_only(self, other) == self.timestamp < other.timestamp

\* ChannelCommand.__lt__
lt(self, other) ==
    IF CommandTypeValue(self.command_type) # CommandTypeValue(other.command_type)
    THEN CommandTypeValue(self.command_type) < CommandTypeValue(other.command_type)
    ELSE self.timestamp < other.timestamp

(***************************************************************************)
(* asyncio.PriorityQueue: a binary heap (heapq) over a list, ordered by    *)
(* ChannelCommand.__lt__.  Positions are 1-based here: the parent of pos   *)
(* is pos \div 2, its children are 2*pos and 2*pos+1.                       *)
(***************************************************************************)
RECURSIVE siftdown(_, _, _)
siftdown(heap, newitem, pos) ==
    IF pos > 1 /\ lt(newitem, heap[pos \div 2])
    THEN siftdown([heap EXCEPT ![pos] = heap[pos \div 2]], newitem, pos \div 2)
    ELSE [heap EXCEPT ![pos] = newitem]

RECURSIVE siftup(_, _, _)
siftup(heap, newitem, pos) ==
    LET childpos == 2 * pos
        rightpos == childpos + 1
    IN  IF childpos <= Len(heap)
        THEN LET c == IF rightpos <= Len(heap) /\ ~lt(heap[childpos], heap[rightpos])
                      THEN rightpos ELSE childpos
             IN  siftup([heap EXCEPT ![pos] = heap[c]], newitem, c)
        ELSE siftdown([heap EXCEPT ![pos] = newitem], newitem, pos)

\* command_queue.put(item): heappush
QueuePut(heap, item) == siftdown(Append(heap, item), item, Len(heap) + 1)

\* A plausible slip: the first item read and left in the queue.
QueueGet_peek(heap) == [item |-> heap[1], heap |-> heap]

\* command_queue.get(): heappop, the item returned and the heap left
QueueGet(heap) ==
    LET lastelt == heap[Len(heap)]
        rest == SubSeq(heap, 1, Len(heap) - 1)
    IN  IF rest # <<>>
        THEN [item |-> rest[1], heap |-> siftup([rest EXCEPT ![1] = lastelt], lastelt, 1)]
        ELSE [item |-> lastelt, heap |-> rest]

(***************************************************************************)
(* The cooldown ledger                                                     *)
(***************************************************************************)
\* A plausible slip: the class left out of the ledger key.
SourceKey_without_class(command_type, source_id) ==
    IF source_id = None \/ source_id = "" THEN "default" ELSE source_id

\* f"{command_type.name}_{source_id or 'default'}"
SourceKey(command_type, source_id) ==
    command_type \o "_" \o (IF source_id = None \/ source_id = "" THEN "default" ELSE source_id)

\* dict.get(key, default)
DictGet(dict, key, default) == IF key \in DOMAIN dict THEN dict[key] ELSE default

\* dict[key] = value
DictSet(dict, key, value) ==
    [k \in DOMAIN dict \cup {key} |-> IF k = key THEN value ELSE dict[k]]

\* A plausible slip: the cooldown test of add_command left out.
InCooldown_never(sources, command_type, source_id, t) == FALSE

\* add_command, lines 323-328: the submission falls in the cooldown window
InCooldown(sources, command_type, source_id, t) ==
    /\ SourceKey(command_type, source_id) \in DOMAIN sources
    /\ t - sources[SourceKey(command_type, source_id)] < source_cooldowns(command_type)

\* A plausible slip: the ledger stamped before the cooldown test, so that a
\* rejected submission extends the cooldown window.
LedgerAfterAdd_always(sources, command_type, source_id, t) ==
    DictSet(sources, SourceKey(command_type, source_id), t)

\* add_command, lines 323-331: the ledger the call leaves
LedgerAfterAdd(sources, command_type, source_id, t) ==
    IF InCooldown(sources, command_type, source_id, t)
    THEN sources
    ELSE DictSet(sources, SourceKey(command_type, source_id), t)

(***************************************************************************)
(* Strength operations                                                     *)
(***************************************************************************)
Min(x, y) == IF x < y THEN x ELSE y
Max(x, y) == IF x > y THEN x ELSE y

\* StrengthData as reported by the app: 0 <= a <= a_limit, 0 <= b <= b_limit
StrengthData ==
    {sd \in [a : 0..MaxLimit, b : 0..MaxLimit, a_limit : 0..MaxLimit, b_limit : 0..MaxLimit] :
        sd.a <= sd.a_limit /\ sd.b <= sd.b_limit}

\* The limit last reported for a channel.
LimitOf(sd, channel) == IF channel = "A" THEN sd.a_limit ELSE sd.b_limit

\* A plausible slip: the upper clamp left out.
NewStrength_unclamped(current, limit, delta) == Max(0, current + delta)

\* adjust_strength, lines 174 and 177: max(0, min(limit, current + delta))
NewStrength(current, limit, delta) == Max(0, Min(limit, current + delta))

\* adjust_strength: the client.set_strength calls it makes (none or one)
adjust_strength(strength, channel, delta) ==
    IF strength = <<>>
    THEN <<>>
    ELSE IF channel = "A"
         THEN <<[channel |-> "A", value |-> NewStrength(strength[1].a, strength[1].a_limit, delta),
                 via |-> "adjust_strength", limit |-> strength[1].a_limit]>>
         ELSE <<[channel |-> "B", value |-> NewStrength(strength[1].b, strength[1].b_limit, delta),
                 via |-> "adjust_strength", limit |-> strength[1].b_limit]>>

\* set_strength: the client.set_strength call it makes
set_strength(strength, channel, value) ==
    <<[channel |-> channel, value |-> value, via |-> "set_strength",
       limit |-> IF strength = <<>> THEN 0 ELSE LimitOf(strength[1], channel)]>>

\* execute_command: the client.set_strength calls it makes (none or one)
execute_command(strength, command) ==
    CASE command.operation = SET_TO -> set_strength(strength, command.channel, command.value)
      [] command.operation = INCREASE -> adjust_strength(strength, command.channel, command.value)
      [] command.operation = DECREASE -> adjust_strength(strength, command.channel, 0 - command.value)

(***************************************************************************)
(* The dispatcher's class and channel toggles                              *)
(***************************************************************************)
\* A plausible slip: the class toggles not consulted.
ClassEnabled_always(command) == TRUE

\* A plausible slip: the interaction mode of the channel not consulted.
ClassEnabled_any_channel(command) ==
    IF command.command_type = GUI_COMMAND /\ enable_gui_commands
    THEN TRUE
    ELSE IF command.command_type = PANEL_COMMAND /\ enable_panel_commands
    THEN TRUE
    ELSE IF command.command_type = INTERACTION_COMMAND /\ enable_interaction_commands
    THEN TRUE
    ELSE command.command_type = TON_COMMAND

\* process_commands, lines 122-132: the command is given to execute_command
ClassEnabled(command) ==
    IF command.command_type = GUI_COMMAND /\ enable_gui_commands
    THEN TRUE
    ELSE IF command.command_type = PANEL_COMMAND /\ enable_panel_commands
    THEN TRUE
    ELSE IF command.command_type = INTERACTION_COMMAND /\ enable_interaction_commands
    THEN \/ (command.channel = "A" /\ enable_interaction_mode_a)
         \/ (command.channel = "B" /\ enable_interaction_mode_b)
    ELSE command.command_type = TON_COMMAND

Pairs == CommandType \X SourceIds

(***************************************************************************)
(* State after DGLabController.__init__ and EventManager.__init__          *)
(***************************************************************************)
CtlInit ==
    /\ now = StartTime
    /\ command_queue = <<>>
    /\ command_sources = [k \in {} |-> 0]
    /\ enable_gui_commands = TRUE
    /\ enable_panel_commands = TRUE
    /\ enable_interaction_commands = TRUE
    /\ enable_interaction_mode_a = FALSE
    /\ enable_interaction_mode_b = FALSE
    /\ last_strength = <<>>
    /\ pc_dispatch = "get"
    /\ transport_call = <<>>
    /\ n_commands = 0
    /\ last_taken = <<>>
    /\ n_executed = 0
    /\ gets_since_put = 0
    /\ last_add = <<>>
    /\ last_accepted = [p \in Pairs |-> <<>>]
    /\ taken = [k \in {} |-> 0]
    /\ n_transport_errors = 0
    /\ dispatched = [k \in {} |-> 0]
    /\ last_pass = <<>>
    /\ pc_cleanup = "idle"
    /\ fire_mode_lock = [holder |-> <<>>, waiters |-> <<>>]
    /\ fire_mode_active = FALSE
    /\ fire_mode_origin_strength_a = 0
    /\ fire_mode_origin_strength_b = 0
    /\ fire = [i \in 1..MaxInvocations |-> [pc |-> "idle"]]
    /\ plugin_call = <<>>
    /\ pulse_last_update_time = [k \in {} |-> 0]
    /\ pulse_wake = StartTime
    /\ last_poll = <<>>
    /\ last_load = <<>>
    /\ enable_calls = [c \in 1..MaxEnableCalls |-> [pc |-> "idle"]]
    /\ mode_toggle_timer = <<>>
    /\ presses = <<>>

BusInit ==
    /\ event_handlers = [k \in {} |-> <<>>]
    /\ emission = <<>>
    /\ calls = <<>>
    /\ n_handlers = 0

PlgInit ==
    /\ plugins = [k \in {} |-> None]
    /\ instances = [k \in {} |-> None]
    /\ plugin_events = [k \in {} |-> <<>>]
    /\ tasks = <<>>
    /\ ever_enabled = {}
    /\ last_call = <<>>

Init == CtlInit /\ BusInit /\ PlgInit

(***************************************************************************)
(* DGLabController                                                         *)
(***************************************************************************)
\* time.time() advances
Tick ==
    /\ now < StartTime + MaxTicks
    /\ now' = now + 1
    /\ UNCHANGED <<command_queue, command_sources, enable_gui_commands,
                   enable_panel_commands, enable_interaction_commands,
                   enable_interaction_mode_a, enable_interaction_mode_b,
                   last_strength, pc_dispatch, transport_call, n_commands,
                   last_taken, n_executed, gets_since_put, last_add, last_accepted>>
    /\ UNCHANGED <<taken, n_transport_errors, dispatched, last_pass, pc_cleanup,
                   busVars, plgVars, sideVars>>

\* add_command(command_type, channel, operation, value, source_id)
add_command(command_type, channel, operation, value, source_id) ==
    /\ n_commands < MaxCommands
    /\ LET pair == <<command_type, source_id>>
           rejected == InCooldown(command_sources, command_type, source_id, now)
       IN  /\ last_add' = <<[command_type |-> command_type, source_id |-> source_id,
                             time |-> now, accepted |-> ~rejected,
                             previous_accepted |-> last_accepted[pair]]>>
           /\ command_sources' = LedgerAfterAdd(command_sources, command_type, source_id, now)
           /\ IF rejected
              THEN UNCHANGED <<command_queue, n_commands, gets_since_put, last_accepted>>
              ELSE /\ command_queue' =
                          QueuePut(command_queue,
                                   ChannelCommand(command_type, channel, operation, value,
                                                  source_id, now, n_commands + 1))
                   /\ n_commands' = n_commands + 1
                   /\ gets_since_put' = 0
                   /\ last_accepted' = [last_accepted EXCEPT ![pair] = <<now>>]
    /\ UNCHANGED <<now, enable_gui_commands, enable_panel_commands,
                   enable_interaction_commands, enable_interaction_mode_a,
                   enable_interaction_mode_b, last_strength, pc_dispatch,
                   transport_call, last_taken, n_executed>>
    /\ UNCHANGED <<taken, n_transport_errors, dispatched, last_pass, pc_cleanup,
                   busVars, plgVars, sideVars>>

\* The record kept of a pass of process_commands: the command taken, whether
\* it was skipped as in cooldown, and the time a command of the same
\* (class, source_id) was last dispatched before (none: <<>>).
Pass(command, skipped, history) ==
    [command |-> command, skipped |-> skipped,
     own_dispatch |-> IF <<command.command_type, command.source_id>> \in DOMAIN history
                      THEN <<history[<<command.command_type, command.source_id>>]>>
                      ELSE <<>>]

\* process_commands: one pass of the loop, from command_queue.get() to the
\* first await of the transport (or to the end of the pass)
process_commands ==
    /\ pc_dispatch = "get"
    /\ command_queue # <<>>
    /\ LET got == QueueGet(command_queue)
           command == got.item
           current_time == now
           last_command_time == DictGet(command_sources, command.source_id, 0)
           cooldown == source_cooldowns(command.command_type)
       IN  /\ command_queue' = got.heap
           /\ last_taken' = <<command>>
           /\ taken' = DictSet(taken, command.id, DictGet(taken, command.id, 0) + 1)
           /\ gets_since_put' = gets_since_put + 1
           /\ last_pass' = <<Pass(command, current_time - last_command_time < cooldown,
                                  dispatched)>>
           /\ IF current_time - last_command_time < cooldown
              THEN UNCHANGED <<command_sources, n_executed, pc_dispatch, transport_call,
                               dispatched>>
              ELSE /\ command_sources' = DictSet(command_sources, command.source_id, current_time)
                   /\ dispatched' = DictSet(dispatched,
                                            <<command.command_type, command.source_id>>,
                                            current_time)
                   /\ IF ClassEnabled(command)
                      THEN /\ n_executed' = n_executed + 1
                           /\ transport_call' = execute_command(last_strength, command)
                           /\ pc_dispatch' = IF execute_command(last_strength, command) = <<>>
                                             THEN "get" ELSE "transport"
                      ELSE UNCHANGED <<n_executed, pc_dispatch, transport_call>>
    /\ UNCHANGED <<now, enable_gui_commands, enable_panel_commands,
                   enable_interaction_commands, enable_interaction_mode_a,
                   enable_interaction_mode_b, last_strength, n_commands,
                   last_add, last_accepted>>
    /\ UNCHANGED <<n_transport_errors, pc_cleanup, busVars, plgVars, sideVars>>

\* client.set_strength returns and the loop goes back to command_queue.get()
transport_returns ==
    /\ pc_dispatch = "transport"
    /\ pc_dispatch' = "get"
    /\ transport_call' = <<>>
    /\ UNCHANGED <<now, command_queue, command_sources, enable_gui_commands,
                   enable_panel_commands, enable_interaction_commands,
                   enable_interaction_mode_a, enable_interaction_mode_b,
                   last_strength, n_commands, last_taken, n_executed, gets_since_put,
                   last_add, last_accepted>>
    /\ UNCHANGED <<taken, n_transport_errors, dispatched, last_pass, pc_cleanup,
                   busVars, plgVars, sideVars>>

\* A plausible slip: no try/except on the way of the exception, which then
\* ends the process_commands task.
AfterTransportError_uncaught(call) == "stopped"

\* Where process_commands is after client.set_strength has raised: the
\* exception of a set_strength call is caught in set_strength (line 165),
\* that of an adjust_strength call in execute_command (line 154); the
\* command is not queued again and the loop goes back to command_queue.get()
AfterTransportError(call) == "get"

\* client.set_strength raises
transport_raises ==
    /\ pc_dispatch = "transport"
    /\ pc_dispatch' = AfterTransportError(transport_call[1])
    /\ transport_call' = <<>>
    /\ n_transport_errors' = n_transport_errors + 1
    /\ UNCHANGED <<now, command_queue, command_sources, enable_gui_commands,
                   enable_panel_commands, enable_interaction_commands,
                   enable_interaction_mode_a, enable_interaction_mode_b,
                   last_strength, n_commands, last_taken, n_executed, gets_since_put,
                   last_add, last_accepted, taken, dispatched, last_pass>>
    /\ UNCHANGED <<pc_cleanup, busVars, plgVars, sideVars>>

\* A plausible slip: no try/except around the pass, so that an exception
\* ends the process_commands task.
AfterInternalError_uncaught == "stopped"

\* Where process_commands is after a statement of the pass has raised an
\* Exception: in the except clause (lines 137-139), at asyncio.sleep(0.1)
AfterInternalError == "sleep"

\* process_commands: a pass in which a statement after command_queue.get()
\* raises an Exception that execute_command does not absorb
process_commands_raises ==
    /\ pc_dispatch = "get"
    /\ command_queue # <<>>
    /\ LET got == QueueGet(command_queue)
           command == got.item
       IN  /\ command_queue' = got.heap
           /\ last_taken' = <<command>>
           /\ taken' = DictSet(taken, command.id, DictGet(taken, command.id, 0) + 1)
           /\ gets_since_put' = gets_since_put + 1
    /\ pc_dispatch' = AfterInternalError
    /\ UNCHANGED <<now, command_sources, enable_gui_commands, enable_panel_commands,
                   enable_interaction_commands, enable_interaction_mode_a,
                   enable_interaction_mode_b, last_strength, transport_call, n_commands,
                   n_executed, last_add, last_accepted>>
    /\ UNCHANGED <<n_transport_errors, dispatched, last_pass, pc_cleanup, busVars, plgVars, sideVars>>

\* process_commands, line 139: asyncio.sleep(0.1) returns and the loop goes
\* back to command_queue.get()
sleep_returns ==
    /\ pc_dispatch = "sleep"
    /\ pc_dispatch' = "get"
    /\ UNCHANGED <<now, command_queue, command_sources, enable_gui_commands,
                   enable_panel_commands, enable_interaction_commands,
                   enable_interaction_mode_a, enable_interaction_mode_b,
                   last_strength, transport_call, n_commands, last_taken, n_executed,
                   gets_since_put, last_add, last_accepted>>
    /\ UNCHANGED <<taken, n_transport_errors, dispatched, last_pass, pc_cleanup,
                   busVars, plgVars, sideVars>>

\* A plausible slip: the task not awaited after cancel().
AfterCancel_unawaited == "returned"

\* Where cleanup is after command_processing_task.cancel(): at the await of
\* the task (line 363)
AfterCancel == "awaiting"

\* cleanup, lines 360-363, to its await: command_processing_task.cancel()
\* asks for CancelledError to be thrown into process_commands at the await
\* where it is suspended (command_queue.get(), the transport call, which is
\* cancelled with it, or asyncio.sleep)
cleanup ==
    /\ pc_cleanup = "idle"
    /\ pc_dispatch \in {"get", "transport", "sleep"}
    /\ pc_cleanup' = AfterCancel
    /\ pc_dispatch' = "cancelling"
    /\ transport_call' = <<>>
    /\ UNCHANGED <<now, command_queue, command_sources, enable_gui_commands,
                   enable_panel_commands, enable_interaction_commands,
                   enable_interaction_mode_a, enable_interaction_mode_b,
                   last_strength, n_commands, last_taken, n_executed,
                   gets_since_put, last_add, last_accepted>>
    /\ UNCHANGED <<taken, n_transport_errors, dispatched, last_pass, busVars, plgVars, sideVars>>

\* process_commands is resumed with CancelledError, which no except clause
\* of the pass catches (it is not an Exception): the task ends
task_cancelled ==
    /\ pc_dispatch = "cancelling"
    /\ pc_dispatch' = "cancelled"
    /\ UNCHANGED <<now, command_queue, command_sources, enable_gui_commands,
                   enable_panel_commands, enable_interaction_commands,
                   enable_interaction_mode_a, enable_interaction_mode_b,
                   last_strength, transport_call, n_commands, last_taken, n_executed,
                   gets_since_put, last_add, last_accepted>>
    /\ UNCHANGED <<taken, n_transport_errors, dispatched, last_pass, pc_cleanup,
                   busVars, plgVars, sideVars>>

\* cleanup, lines 363-367: the awaited task has ended, CancelledError is
\* caught and cleanup returns
cleanup_returns ==
    /\ pc_cleanup = "awaiting"
    /\ pc_dispatch = "cancelled"
    /\ pc_cleanup' = "returned"
    /\ UNCHANGED <<now, command_queue, command_sources, enable_gui_commands,
                   enable_panel_commands, enable_interaction_commands,
                   enable_interaction_mode_a, enable_interaction_mode_b,
                   last_strength, pc_dispatch, transport_call, n_commands, last_taken,
                   n_executed, gets_since_put, last_add, last_accepted>>
    /\ UNCHANGED <<taken, n_transport_errors, dispatched, last_pass, busVars, plgVars, sideVars>>

\* set_panel_control(value)
set_panel_control(value) ==
    /\ enable_panel_commands' =
          IF value = 1 THEN TRUE ELSE IF value = 0 THEN FALSE ELSE enable_panel_commands
    /\ UNCHANGED <<now, command_queue, command_sources, enable_gui_commands,
                   enable_interaction_commands, enable_interaction_mode_a,
                   enable_interaction_mode_b, last_strength, pc_dispatch,
                   transport_call, n_commands, last_taken, n_executed, gets_since_put,
                   last_add, last_accepted>>
    /\ UNCHANGED <<taken, n_transport_errors, dispatched, last_pass, pc_cleanup,
                   busVars, plgVars, sideVars>>

\* set_mode_timer_handle(channel), after its one second sleep; main_window is set
set_mode_timer_handle(channel) ==
    /\ enable_interaction_mode_a' =
          IF channel = "A" THEN ~enable_interaction_mode_a ELSE enable_interaction_mode_a
    /\ enable_interaction_mode_b' =
          IF channel = "B" THEN ~enable_interaction_mode_b ELSE enable_interaction_mode_b
    /\ enable_interaction_commands' = (enable_interaction_mode_a' \/ enable_interaction_mode_b')
    /\ UNCHANGED <<now, command_queue, command_sources, enable_gui_commands,
                   enable_panel_commands, last_strength, pc_dispatch,
                   transport_call, n_commands, last_taken, n_executed, gets_since_put,
                   last_add, last_accepted>>
    /\ UNCHANGED <<taken, n_transport_errors, dispatched, last_pass, pc_cleanup,
                   busVars, plgVars, sideVars>>

\* The GUI class toggle is a public attribute, written from outside the class.
set_enable_gui_commands(value) ==
    /\ enable_gui_commands' = value
    /\ UNCHANGED <<now, command_queue, command_sources, enable_panel_commands,
                   enable_interaction_commands, enable_interaction_mode_a,
                   enable_interaction_mode_b, last_strength, pc_dispatch,
                   transport_call, n_commands, last_taken, n_executed, gets_since_put,
                   last_add, last_accepted>>
    /\ UNCHANGED <<taken, n_transport_errors, dispatched, last_pass, pc_cleanup,
                   busVars, plgVars, sideVars>>

\* update_strength(strength_data) / the data loop of main.py
update_strength(strength_data) ==
    /\ last_strength' = <<strength_data>>
    /\ UNCHANGED <<now, command_queue, command_sources, enable_gui_commands,
                   enable_panel_commands, enable_interaction_commands,
                   enable_interaction_mode_a, enable_interaction_mode_b,
                   pc_dispatch, transport_call, n_commands, last_taken, n_executed,
                   gets_since_put, last_add, last_accepted>>
    /\ UNCHANGED <<taken, n_transport_errors, dispatched, last_pass, pc_cleanup,
                   busVars, plgVars, sideVars>>

(***************************************************************************)
(* Specification of the command queue and the cooldown gate: submissions   *)
(* of every class interleaved with the clock and the dispatcher.           *)
(***************************************************************************)
Next ==
    \/ Tick
    \/ \E command_type \in CommandType :
          add_command(command_type, "A", SET_TO, 1, None)
    \/ process_commands
    \/ transport_returns

Spec == Init /\ [][Next]_vars

(***************************************************************************)
(* Specification of the cooldown gate: submissions from several sources,   *)
(* two classes sharing one source id.                                      *)
(***************************************************************************)
CooldownInputs ==
    {<<GUI_COMMAND, None>>, <<PANEL_COMMAND, None>>,
     <<PANEL_COMMAND, "panel">>, <<INTERACTION_COMMAND, "panel">>}

CooldownNext ==
    \/ Tick
    \/ \E input \in CooldownInputs :
          add_command(input[1], "A", SET_TO, 1, input[2])
    \/ process_commands
    \/ transport_returns

CooldownSpec == Init /\ [][CooldownNext]_vars

(***************************************************************************)
(* Specification of the toggles: submissions of every class on both        *)
(* channels interleaved with the toggles and the dispatcher.               *)
(***************************************************************************)
ToggleNext ==
    \/ \E command_type \in CommandType, channel \in Channel :
          add_command(command_type, channel, SET_TO, 1, None)
    \/ process_commands
    \/ transport_returns
    \/ \E value \in {0, 1} : set_panel_control(value)
    \/ \E channel \in Channel : set_mode_timer_handle(channel)
    \/ \E value \in BOOLEAN : set_enable_gui_commands(value)

ToggleSpec == Init /\ [][ToggleNext]_vars

(***************************************************************************)
(* Specification of the strength operations: strength reports interleaved  *)
(* with commands of every operation, value and sign, one queued at a time. *)
(***************************************************************************)
StrengthNext ==
    \/ \E strength_data \in StrengthData : update_strength(strength_data)
    \/ \E channel \in Channel, operation \in StrengthOperationType,
          value \in (0 - MaxDelta)..MaxDelta :
          /\ command_queue = <<>>
          /\ add_command(GUI_COMMAND, channel, operation, value, None)
    \/ process_commands
    \/ transport_returns

StrengthSpec == Init /\ [][StrengthNext]_vars

(***************************************************************************)
(* EventManager                                                            *)
(***************************************************************************)
LOWEST == "LOWEST"
LOW == "LOW"
NORMAL == "NORMAL"
HIGH == "HIGH"
HIGHEST == "HIGHEST"
MONITOR == "MONITOR"

EventPriority == {LOWEST, LOW, NORMAL, HIGH, HIGHEST, MONITOR}

\* EventPriority.<member>.value
EventPriorityValue(priority) ==
    CASE priority = LOWEST -> 0
      [] priority = LOW -> 1
      [] priority = NORMAL -> 2
      [] priority = HIGH -> 3
      [] priority = HIGHEST -> 4
      [] priority = MONITOR -> 5

\* What a handler does when it is invoked.
Outcomes == {"return", "cancel", "raise"}

\* EventHandler(handler, priority, plugin); handler is the callable's identity
EventHandler(handler, priority, plugin) ==
    [handler |-> handler, priority |-> priority, plugin |-> plugin]

\* EventHandler.__lt__
EventHandler_lt(self, other) ==
    EventPriorityValue(self.priority) < EventPriorityValue(other.priority)

\* list.sort(): a stable sort by __lt__; one insertion of it
RECURSIVE SortInsert(_, _)
SortInsert(sorted, item) ==
    IF sorted = <<>>
    THEN <<item>>
    ELSE IF EventHandler_lt(item, sorted[Len(sorted)])
         THEN Append(SortInsert(SubSeq(sorted, 1, Len(sorted) - 1), item), sorted[Len(sorted)])
         ELSE Append(sorted, item)

\* A plausible slip: the sort after the append left out.
ListSort_missing(list) == list

\* list.sort()
RECURSIVE ListSort(_)
ListSort(list) ==
    IF list = <<>>
    THEN <<>>
    ELSE SortInsert(ListSort(SubSeq(list, 1, Len(list) - 1)), list[Len(list)])

\* register_event_handler, lines 84-91: the handler lists after handler_obj
\* is appended to the list of event_name and the list is sorted
WithHandler(handlers, event_name, handler_obj) ==
    DictSet(handlers, event_name,
            ListSort(Append(DictGet(handlers, event_name, <<>>), handler_obj)))

\* register_event_handler(event_name, handler, priority, plugin=None), for a
\* new callable
register_event_handler(event_name, priority) ==
    /\ n_handlers < MaxHandlers
    /\ n_handlers' = n_handlers + 1
    /\ event_handlers' = WithHandler(event_handlers, event_name,
                                     EventHandler(n_handlers + 1, priority, None))
    /\ UNCHANGED <<emission, calls>>
    /\ UNCHANGED <<ctlVars, plgVars>>

\* A plausible slip: the cancelled flag not tested before a handler is invoked.
Cancelled_ignored(e) == FALSE

\* emit, lines 162 and 180: event.is_cancelled
Cancelled(e) == e.cancelled

\* emit, lines 177-194, from the end of the first loop: the wildcard loop is
\* entered if "*" has handlers, and emit returns otherwise
EnterWildcard(e) ==
    IF "*" \in DOMAIN event_handlers
    THEN [e EXCEPT !.phase = "wildcard", !.key = "*", !.index = 1, !.detached = <<>>]
    ELSE [e EXCEPT !.phase = "returned", !.detached = <<>>]

\* The list object the for loop of emit iterates: the list of
\* _event_handlers[key], or the list that was there when the loop started
\* if an unregistration has bound the key to a new list since
HandlerList(e) ==
    IF e.detached # <<>> THEN e.detached[1] ELSE event_handlers[e.key]

\* One for loop of emit, up to its next await: the next handler of the list
\* is invoked, or the loop ends (the list is exhausted, or the event is
\* cancelled: break)
LoopStep(e) ==
    IF e.phase \in {"exact", "wildcard"}
       /\ e.index <= Len(HandlerList(e))
       /\ ~Cancelled(e)
    THEN [e EXCEPT !.index = e.index + 1,
                   !.awaiting = <<HandlerList(e)[e.index]>>]
    ELSE IF e.phase = "exact" THEN EnterWildcard(e)
    ELSE [e EXCEPT !.phase = "returned"]

\* emit is inside one of its two loops and awaits nothing.
InLoop(e) == e.awaiting = <<>> /\ e.phase \in {"exact", "wildcard"}

\* emit runs from where it is to its next await, or to its return
RunToAwait(e) ==
    LET e1 == IF InLoop(e) THEN LoopStep(e) ELSE e
        e2 == IF InLoop(e1) THEN LoopStep(e1) ELSE e1
    IN  IF InLoop(e2) THEN LoopStep(e2) ELSE e2

\* A plausible slip: no try/except around the handler call, so that an
\* exception of a handler leaves emit.
AfterHandler_uncaught(e, outcome) ==
    [e EXCEPT !.awaiting = <<>>,
              !.cancelled = e.cancelled \/ outcome = "cancel",
              !.phase = IF outcome = "raise" THEN "raised" ELSE e.phase]

\* emit, lines 165-175 and 183-192: the awaited handler returns, or calls
\* event.cancel() and returns, or raises, which is caught and logged
AfterHandler(e, outcome) ==
    [e EXCEPT !.awaiting = <<>>,
              !.cancelled = e.cancelled \/ outcome = "cancel"]

\* The bound methods _register_builtin_events registers: callables that
\* exist before every callable n_handlers counts.
on_plugin_enabled == 0 - 1
on_plugin_disabled == 0 - 2
on_connection_status_changed == 0 - 3
on_strength_data_received == 0 - 4
on_feedback_button_pressed == 0 - 5

\* The plugin hook a built-in device-event handler calls, None for every
\* other callable.
HookName(handler) ==
    CASE handler = on_connection_status_changed -> "on_connection_status_changed"
      [] handler = on_strength_data_received -> "on_strength_data_received"
      [] handler = on_feedback_button_pressed -> "on_feedback_button_pressed"
      [] OTHER -> None

\* _on_connection_status_changed, _on_strength_data_received,
\* _on_feedback_button_pressed: the plugins whose hook the handler calls,
\* those of self.plugins.values() that are enabled and have the attribute
HookTargets(handler) ==
    IF HookName(handler) = None
    THEN {}
    ELSE {id \in {plugins[k] : k \in DOMAIN plugins} :
             instances[id].enabled /\ HookName(handler) \in instances[id].hooks}

\* The handler calls of an emission, with the call emit now awaits added.
WithCall(history, e) ==
    IF e.awaiting = <<>>
    THEN history
    ELSE Append(history, [handler |-> e.awaiting[1].handler,
                          priority |-> e.awaiting[1].priority,
                          plugin |-> e.awaiting[1].plugin,
                          hooks |-> HookTargets(e.awaiting[1].handler),
                          tier |-> e.phase,
                          outcome |-> "running"])

\* No emit coroutine is running.
NoEmission == IF emission = <<>> THEN TRUE ELSE emission[1].phase = "returned"

\* emit, lines 155-194, from the call to the first await, or to the return
Emitting(event_name) ==
    LET event == [name |-> event_name, cancelled |-> FALSE, awaiting |-> <<>>,
                  index |-> 1, key |-> event_name, phase |-> "exact",
                  detached |-> <<>>, started_with |-> n_handlers]
        e == IF event_name \in DOMAIN event_handlers
             THEN RunToAwait(event)
             ELSE RunToAwait(EnterWildcard(event))
    IN  /\ emission' = <<e>>
        /\ calls' = WithCall(<<>>, e)

\* emit(event_name), awaited by its caller; one emission is followed at a time
emit(event_name) ==
    /\ NoEmission
    /\ Emitting(event_name)
    /\ UNCHANGED <<event_handlers, n_handlers>>
    /\ UNCHANGED <<ctlVars, plgVars>>

\* The awaited handler finishes: it returns, calls event.cancel() and
\* returns, or raises (caught and logged by emit); emit then runs to its
\* next await, or to its return
handler_finishes(outcome) ==
    /\ emission # <<>>
    /\ emission[1].awaiting # <<>>
    /\ LET e == RunToAwait(AfterHandler(emission[1], outcome))
           finished == [calls EXCEPT ![Len(calls)].outcome = outcome]
       IN  /\ emission' = <<e>>
           /\ calls' = WithCall(finished, e)
    /\ UNCHANGED <<event_handlers, n_handlers>>
    /\ UNCHANGED <<ctlVars, plgVars>>

(***************************************************************************)
(* Specification of the event bus: registrations for "x" in every order    *)
(* and priority and for the wildcard, interleaved with emissions of "x".   *)
(***************************************************************************)
BusInputs == ({"x"} \X EventPriority) \cup ({"*"} \X {NORMAL, MONITOR})

BusNext ==
    \/ \E input \in BusInputs : register_event_handler(input[1], input[2])
    \/ emit("x")
    \/ \E outcome \in Outcomes : handler_finishes(outcome)

BusSpec == Init /\ [][BusNext]_vars

(***************************************************************************)
(* PluginManager and Plugin                                                *)
(***************************************************************************)
\* The plugin classes loaded: the name of the class, the methods marked by
\* @event_handler in the order of dir(plugin), and the device-event hooks
\* the class defines.
PluginClasses ==
    {[name |-> "P",
      event_handlers |-> <<[name |-> "x", priority |-> NORMAL],
                           [name |-> "strength_data_received", priority |-> NORMAL]>>,
      hooks |-> {"on_strength_data_received"}],
     [name |-> "Q",
      event_handlers |-> <<[name |-> "x", priority |-> HIGH]>>,
      hooks |-> {}]}

\* What initialize() and shutdown() of a plugin do when they are invoked.
InitializeOutcomes == {"True", "False", "raise"}
ShutdownOutcomes == {"return", "raise"}

\* The thread of the event loop, and a worker thread of run_in_executor.
LOOP_THREAD == "loop"
EXECUTOR_THREAD == "executor"

\* id(obj) of the n-th object built
Id(n) == "0x" \o ToString(n)

\* Plugin.__init__
Plugin(plugin_class) ==
    [name |-> plugin_class.name, enabled |-> FALSE, hooks |-> plugin_class.hooks]

\* A plausible slip: the name used as the key although it is taken.
RegistryKey_overwriting(registry, plugin_name, plugin_id) == plugin_name

\* register_plugin, lines 240-245: the registry key of a new plugin
RegistryKey(registry, plugin_name, plugin_id) ==
    IF plugin_name \in DOMAIN registry
    THEN plugin_name \o "_" \o plugin_id
    ELSE plugin_name

\* register_event_handler, line 98: f"{event_name}_{id(handler)}"
EventKey(event_name, handler) == event_name \o "_" \o ToString(handler)

\* _register_plugin_handlers: register_event_handler(name, attr, priority,
\* plugin) for every marked method, each a new callable
RECURSIVE register_plugin_handlers(_, _, _)
register_plugin_handlers(bus, plugin_id, declared) ==
    IF declared = <<>>
    THEN bus
    ELSE LET handler == bus.n_handlers + 1
             handler_obj == EventHandler(handler, declared[1].priority, plugin_id)
             entry == [event_key |-> EventKey(declared[1].name, handler),
                       handler_obj |-> handler_obj]
         IN  register_plugin_handlers(
                 [event_handlers |->
                      WithHandler(bus.event_handlers, declared[1].name, handler_obj),
                  plugin_events |->
                      DictSet(bus.plugin_events, plugin_id,
                              Append(DictGet(bus.plugin_events, plugin_id, <<>>), entry)),
                  n_handlers |-> handler],
                 plugin_id, Tail(declared))

\* str.split('_')[0]: the part of the string before its first underscore
RECURSIVE SplitHead(_)
SplitHead(s) ==
    IF s = "" THEN ""
    ELSE IF SubSeq(s, 1, 1) = "_" THEN ""
    ELSE SubSeq(s, 1, 1) \o SplitHead(SubSeq(s, 2, Len(s)))

\* unregister_plugin_events, lines 133-139: the key event_name bound to a new
\* list without the handler, and deleted when that list is empty
WithoutHandler(handlers, event_name, handler) ==
    LET list == SelectSeq(handlers[event_name], LAMBDA h : h.handler # handler)
    IN  IF list = <<>>
        THEN [k \in DOMAIN handlers \ {event_name} |-> handlers[k]]
        ELSE [handlers EXCEPT ![event_name] = list]

\* unregister_plugin_events, lines 129-139: the for loop over the entries
\* recorded for the plugin
RECURSIVE unregister_each(_, _)
unregister_each(handlers, entries) ==
    IF entries = <<>>
    THEN handlers
    ELSE LET event_name == SplitHead(entries[1].event_key)
         IN  unregister_each(
                 IF event_name \in DOMAIN handlers
                 THEN WithoutHandler(handlers, event_name, entries[1].handler_obj.handler)
                 ELSE handlers,
                 Tail(entries))

\* The event names unregister_plugin_events binds to a new list.
Rebound(handlers, entries) ==
    {SplitHead(entries[i].event_key) : i \in DOMAIN entries} \cap DOMAIN handlers

\* The emit coroutine after some names were bound to new lists: a for loop
\* over the list of one of them goes on with the list it started with
Detached(em, handlers, names) ==
    IF em = <<>>
    THEN em
    ELSE IF em[1].phase \in {"exact", "wildcard"} /\ em[1].detached = <<>>
            /\ em[1].key \in names
         THEN <<[em[1] EXCEPT !.detached = <<handlers[em[1].key]>>]>>
         ELSE em

\* asyncio.create_task(coro) called on a thread: the task is scheduled on
\* the running loop of the thread; a thread that runs no event loop gets
\* RuntimeError
create_task(thread, coro) ==
    [raised |-> thread # LOOP_THREAD,
     tasks |-> IF thread = LOOP_THREAD THEN <<coro>> ELSE <<>>]

\* notify_plugin_enabled(plugin), called on a thread
notify_plugin_enabled(thread, plugin_id) ==
    create_task(thread, [event_name |-> "plugin_enabled", plugin |-> plugin_id])

\* notify_plugin_disabled(plugin), called on a thread
notify_plugin_disabled(thread, plugin_id) ==
    create_task(thread, [event_name |-> "plugin_disabled", plugin |-> plugin_id])

\* A plausible slip: the flag set before the result of initialize() is known,
\* and the exception of initialize() not caught.
Plugin_enable_unchecked(plugin, plugin_id, initialize, thread) ==
    [enabled |-> TRUE, invoked |-> ~plugin.enabled, tasks |-> <<>>,
     result |-> initialize = "True" /\ ~plugin.enabled,
     raised |-> initialize = "raise" /\ ~plugin.enabled]

\* A plausible slip: the test of self.enabled left out.
Plugin_enable_again(plugin, plugin_id, initialize, thread) ==
    [enabled |-> plugin.enabled \/ initialize = "True", invoked |-> TRUE,
     tasks |-> <<>>, result |-> FALSE, raised |-> FALSE]

\* Plugin.enable, run on a thread: the flag it leaves, whether it invoked
\* initialize(), the tasks it scheduled, what it returned, whether it raised
Plugin_enable(plugin, plugin_id, initialize, thread) ==
    IF ~plugin.enabled
    THEN IF initialize = "True"
         THEN LET notified == notify_plugin_enabled(thread, plugin_id)
              IN  [enabled |-> TRUE, invoked |-> TRUE, tasks |-> notified.tasks,
                   result |-> ~notified.raised, raised |-> FALSE]
         ELSE [enabled |-> plugin.enabled, invoked |-> TRUE, tasks |-> <<>>,
               result |-> FALSE, raised |-> FALSE]
    ELSE [enabled |-> plugin.enabled, invoked |-> FALSE, tasks |-> <<>>,
          result |-> FALSE, raised |-> FALSE]

\* A plausible slip: the test of self.enabled left out.
Plugin_disable_again(plugin, plugin_id, shutdown, thread) ==
    [enabled |-> IF shutdown = "return" THEN FALSE ELSE plugin.enabled,
     invoked |-> TRUE, tasks |-> <<>>, result |-> FALSE, raised |-> FALSE]

\* Plugin.disable, run on a thread
Plugin_disable(plugin, plugin_id, shutdown, thread) ==
    IF plugin.enabled
    THEN IF shutdown = "return"
         THEN LET notified == notify_plugin_disabled(thread, plugin_id)
              IN  [enabled |-> FALSE, invoked |-> TRUE, tasks |-> notified.tasks,
                   result |-> FALSE, raised |-> FALSE]
         ELSE [enabled |-> plugin.enabled, invoked |-> TRUE, tasks |-> <<>>,
               result |-> FALSE, raised |-> FALSE]
    ELSE [enabled |-> plugin.enabled, invoked |-> FALSE, tasks |-> <<>>,
          result |-> FALSE, raised |-> FALSE]

\* The record kept of a call of a PluginManager method: the plugin it found
\* (None if none), what initialize() or shutdown() was set to do, whether
\* the method was invoked, the value returned, whether the call raised, and
\* the tasks it scheduled.
Call(op, plugin_name, plugin_id, outcome, done) ==
    [op |-> op, name |-> plugin_name, plugin |-> plugin_id,
     outcome |-> IF done.invoked THEN outcome ELSE None,
     invoked |-> done.invoked, result |-> done.result, raised |-> done.raised,
     published |-> done.tasks]

\* What a call that runs neither initialize() nor shutdown() has done.
Nothing == [invoked |-> FALSE, result |-> FALSE, raised |-> FALSE, tasks |-> <<>>]

\* State after PluginManager.__init__: the event manager holds the built-in
\* handlers
PluginManagerInit ==
    /\ event_handlers =
          [k \in {"plugin_enabled", "plugin_disabled", "connection_status_changed",
                  "strength_data_received", "feedback_button_pressed"} |->
              CASE k = "plugin_enabled" -> <<EventHandler(on_plugin_enabled, MONITOR, None)>>
                [] k = "plugin_disabled" -> <<EventHandler(on_plugin_disabled, MONITOR, None)>>
                [] k = "connection_status_changed" ->
                       <<EventHandler(on_connection_status_changed, NORMAL, None)>>
                [] k = "strength_data_received" ->
                       <<EventHandler(on_strength_data_received, NORMAL, None)>>
                [] k = "feedback_button_pressed" ->
                       <<EventHandler(on_feedback_button_pressed, NORMAL, None)>>]
    /\ emission = <<>>
    /\ calls = <<>>
    /\ n_handlers = 0
    /\ PlgInit

\* register_plugin(plugin_class), lines 228-257: what it does to the
\* manager and the bus
register_plugin_body(plugin_class) ==
    /\ Cardinality(DOMAIN instances) < MaxPlugins
    /\ LET plugin_id == Id(Cardinality(DOMAIN instances) + 1)
           plugin == Plugin(plugin_class)
           plugin_name == RegistryKey(plugins, plugin.name, plugin_id)
           bus == register_plugin_handlers(
                      [event_handlers |-> event_handlers,
                       plugin_events |-> plugin_events,
                       n_handlers |-> n_handlers],
                      plugin_id, plugin_class.event_handlers)
       IN  /\ instances' = DictSet(instances, plugin_id, plugin)
           /\ plugins' = DictSet(plugins, plugin_name, plugin_id)
           /\ event_handlers' = bus.event_handlers
           /\ plugin_events' = bus.plugin_events
           /\ n_handlers' = bus.n_handlers
           /\ last_call' = <<Call("register_plugin", plugin_name, plugin_id, None, Nothing)>>
    /\ UNCHANGED <<emission, calls, tasks, ever_enabled>>

\* register_plugin(plugin_class), called on its own
register_plugin(plugin_class) ==
    /\ register_plugin_body(plugin_class)
    /\ UNCHANGED ctlVars

\* The plugin classes _find_plugin_classes returns for the files that may
\* be loaded, in the order of the module's attributes (lines 216-224):
\* files that define one Plugin subclass and files that define two.
PluginFiles ==
    {<<c>> : c \in PluginClasses}
    \cup {<<c, d>> : c \in PluginClasses, d \in PluginClasses}

\* _load_plugin_from_file(file_path), lines 161-204, for a file whose
\* module imports: the loop over plugin_classes returns the first plugin
\* that register_plugin returns (lines 197-200), and register_plugin
\* returns the instance it built or raises.
load_plugin_from_file(plugin_classes) ==
    /\ register_plugin_body(plugin_classes[1])
    /\ last_load' = <<[plugin_classes |-> plugin_classes,
                       before |-> DOMAIN instances,
                       registered |-> DOMAIN instances' \ DOMAIN instances]>>
    /\ UNCHANGED <<fire_mode_lock, fire_mode_active, fire_mode_origin_strength_a,
                   fire_mode_origin_strength_b, fire, plugin_call, pulseVars,
                   enableVars, timerVars>>
    /\ UNCHANGED coreVars

\* enable_plugin(plugin_name), with what initialize() does if it is invoked;
\* Plugin.enable runs on a worker thread
enable_plugin(plugin_name, initialize) ==
    /\ IF plugin_name \in DOMAIN plugins
       THEN LET plugin_id == plugins[plugin_name]
                done == Plugin_enable(instances[plugin_id], plugin_id, initialize,
                                      EXECUTOR_THREAD)
            IN  /\ instances' = [instances EXCEPT ![plugin_id].enabled = done.enabled]
                /\ tasks' = tasks \o done.tasks
                /\ ever_enabled' = IF done.enabled THEN ever_enabled \cup {plugin_id}
                                   ELSE ever_enabled
                /\ last_call' = <<Call("enable_plugin", plugin_name, plugin_id,
                                       initialize, done)>>
       ELSE /\ last_call' = <<Call("enable_plugin", plugin_name, None, initialize, Nothing)>>
            /\ UNCHANGED <<instances, tasks, ever_enabled>>
    /\ UNCHANGED <<plugins, plugin_events>>
    /\ UNCHANGED <<ctlVars, busVars>>

\* disable_plugin(plugin_name), with what shutdown() does if it is invoked;
\* Plugin.disable runs on a worker thread, unregister_plugin_events follows
disable_plugin(plugin_name, shutdown) ==
    /\ IF plugin_name \in DOMAIN plugins
       THEN LET plugin_id == plugins[plugin_name]
                done == Plugin_disable(instances[plugin_id], plugin_id, shutdown,
                                       EXECUTOR_THREAD)
                entries == DictGet(plugin_events, plugin_id, <<>>)
            IN  /\ instances' = [instances EXCEPT ![plugin_id].enabled = done.enabled]
                /\ tasks' = tasks \o done.tasks
                /\ event_handlers' = unregister_each(event_handlers, entries)
                /\ plugin_events' =
                      [k \in DOMAIN plugin_events \ {plugin_id} |-> plugin_events[k]]
                /\ emission' = Detached(emission, event_handlers,
                                        Rebound(event_handlers, entries))
                /\ last_call' = <<Call("disable_plugin", plugin_name, plugin_id,
                                       shutdown, done)>>
       ELSE /\ last_call' = <<Call("disable_plugin", plugin_name, None, shutdown, Nothing)>>
            /\ UNCHANGED <<instances, tasks, event_handlers, plugin_events, emission>>
    /\ UNCHANGED <<plugins, ever_enabled, calls, n_handlers>>
    /\ UNCHANGED ctlVars

\* notify_connection_status_changed(True), called by the connection loop of
\* main.py on the thread of the event loop; one notification at a time
notify_connection_status_changed ==
    /\ tasks = <<>>
    /\ tasks' = tasks \o create_task(LOOP_THREAD,
                                     [event_name |-> "connection_status_changed",
                                      plugin |-> None]).tasks
    /\ UNCHANGED <<plugins, instances, plugin_events, ever_enabled, last_call>>
    /\ UNCHANGED <<ctlVars, busVars>>

\* The event loop starts a scheduled task: emit_event(event_name) runs to
\* the first await of emit, or to its return
task_starts ==
    /\ tasks # <<>>
    /\ NoEmission
    /\ Emitting(tasks[1].event_name)
    /\ tasks' = Tail(tasks)
    /\ UNCHANGED <<event_handlers, n_handlers>>
    /\ UNCHANGED <<plugins, instances, plugin_events, ever_enabled, last_call>>
    /\ UNCHANGED ctlVars

(***************************************************************************)
(* Specification of the plugin life cycle: registrations of two classes,   *)
(* also of one class more than once, and calls of enable_plugin and        *)
(* disable_plugin, for registered and unknown names, with every behaviour  *)
(* of initialize() and shutdown().                                         *)
(***************************************************************************)
PluginInit == CtlInit /\ PluginManagerInit

PluginNames == {"P", "Q"}

PluginNext ==
    \/ \E plugin_class \in PluginClasses : register_plugin(plugin_class)
    \/ \E plugin_name \in PluginNames \cup DOMAIN plugins, initialize \in InitializeOutcomes :
          enable_plugin(plugin_name, initialize)
    \/ \E plugin_name \in PluginNames \cup DOMAIN plugins, shutdown \in ShutdownOutcomes :
          disable_plugin(plugin_name, shutdown)

PluginSpec == PluginInit /\ [][PluginNext]_vars

(***************************************************************************)
(* Specification of plugin loading: files with one or two plugin classes   *)
(* are loaded, and the registered plugins are enabled and disabled.        *)
(***************************************************************************)
LoadNext ==
    \/ \E plugin_classes \in PluginFiles : load_plugin_from_file(plugin_classes)
    \/ \E plugin_name \in DOMAIN plugins, initialize \in InitializeOutcomes :
          enable_plugin(plugin_name, initialize)
    \/ \E plugin_name \in DOMAIN plugins, shutdown \in ShutdownOutcomes :
          disable_plugin(plugin_name, shutdown)

LoadSpec == PluginInit /\ [][LoadNext]_vars

(***************************************************************************)
(* enable_plugin step by step: _enable_plugin_async hands Plugin.enable to *)
(* the default executor (a thread pool) and awaits it; toggle_plugin       *)
(* schedules one enable_plugin coroutine per click.  A call is at "idle",  *)
(* "submitted" (Plugin.enable not yet started on its thread), "initialize" *)
(* (past the `if not self.enabled` test, inside initialize()) or           *)
(* "returned".                                                             *)
(***************************************************************************)
\* What no step of an enable_plugin call changes.
EnableFrame ==
    /\ UNCHANGED <<plugins, plugin_events, last_call>>
    /\ UNCHANGED <<fire_mode_lock, fire_mode_active, fire_mode_origin_strength_a,
                   fire_mode_origin_strength_b, fire, plugin_call, pulseVars,
                   last_load, timerVars>>
    /\ UNCHANGED <<coreVars, busVars>>

\* enable_plugin(plugin_name) is called for a registered plugin: lines
\* 313-318, up to the await of run_in_executor.  Calls are numbered in the
\* order they are made.
enable_plugin_called(c, plugin_name) ==
    /\ enable_calls[c].pc = "idle"
    /\ \A b \in 1..(c - 1) : enable_calls[b].pc # "idle"
    /\ plugin_name \in DOMAIN plugins
    /\ enable_calls' = [enable_calls EXCEPT
                           ![c] = [pc |-> "submitted", plugin |-> plugins[plugin_name]]]
    /\ UNCHANGED <<instances, tasks, ever_enabled>>
    /\ EnableFrame

\* Plugin.enable starts on its thread: the test of line 108 and, if the
\* plugin is not enabled, the call of initialize() (line 110)
Plugin_enable_starts(c) ==
    /\ enable_calls[c].pc = "submitted"
    /\ LET plugin_id == enable_calls[c].plugin
       IN  IF ~instances[plugin_id].enabled
           THEN enable_calls' = [enable_calls EXCEPT ![c].pc = "initialize"]
           ELSE enable_calls' = [enable_calls EXCEPT
                                   ![c] = [pc |-> "returned", plugin |-> plugin_id,
                                           result |-> FALSE]]
    /\ UNCHANGED <<instances, tasks, ever_enabled>>
    /\ EnableFrame

\* initialize() returns True or False, or raises: lines 111-117, and the
\* result reaches the awaiting enable_plugin
initialize_returns(c, initialize) ==
    /\ enable_calls[c].pc = "initialize"
    /\ LET plugin_id == enable_calls[c].plugin
           notified == notify_plugin_enabled(EXECUTOR_THREAD, plugin_id)
       IN  IF initialize = "True"
           THEN /\ instances' = [instances EXCEPT ![plugin_id].enabled = TRUE]
                /\ ever_enabled' = ever_enabled \cup {plugin_id}
                /\ tasks' = tasks \o notified.tasks
                /\ enable_calls' = [enable_calls EXCEPT
                                      ![c] = [pc |-> "returned", plugin |-> plugin_id,
                                              result |-> ~notified.raised]]
           ELSE /\ enable_calls' = [enable_calls EXCEPT
                                      ![c] = [pc |-> "returned", plugin |-> plugin_id,
                                              result |-> FALSE]]
                /\ UNCHANGED <<instances, ever_enabled, tasks>>
    /\ EnableFrame

(***************************************************************************)
(* Specification of concurrent enable_plugin calls on registered plugins.  *)
(***************************************************************************)
ConcurrentEnableNext ==
    \/ \E plugin_class \in PluginClasses : register_plugin(plugin_class)
    \/ \E c \in 1..MaxEnableCalls, plugin_name \in DOMAIN plugins :
          enable_plugin_called(c, plugin_name)
    \/ \E c \in 1..MaxEnableCalls : Plugin_enable_starts(c)
    \/ \E c \in 1..MaxEnableCalls, initialize \in InitializeOutcomes :
          initialize_returns(c, initialize)

ConcurrentEnableSpec == PluginInit /\ [][ConcurrentEnableNext]_vars

(***************************************************************************)
(* Specification of the delivery of events to plugins: registrations,      *)
(* calls of enable_plugin and disable_plugin that succeed, and emissions   *)
(* of an event name without and of one with underscores, awaited by the    *)
(* caller or scheduled as a task.                                          *)
(***************************************************************************)
EmittedNames == {"x", "strength_data_received"}

DeliveryNext ==
    \/ \E plugin_class \in PluginClasses : register_plugin(plugin_class)
    \/ \E plugin_name \in DOMAIN plugins : enable_plugin(plugin_name, "True")
    \/ \E plugin_name \in DOMAIN plugins : disable_plugin(plugin_name, "return")
    \/ \E event_name \in EmittedNames : emit(event_name)
    \/ handler_finishes("return")
    \/ notify_connection_status_changed
    \/ task_starts

DeliverySpec == PluginInit /\ [][DeliveryNext]_vars

(***************************************************************************)
(* Specification of the dispatcher: submissions of two classes and two     *)
(* operations, from two sources, and transport calls that return or raise. *)
(***************************************************************************)
DispatchNext ==
    \/ \E command_type \in {GUI_COMMAND, PANEL_COMMAND}, operation \in {SET_TO, INCREASE},
          source_id \in SourceIds :
          add_command(command_type, "A", operation, 1, source_id)
    \/ update_strength([a |-> 0, b |-> 0, a_limit |-> MaxLimit, b_limit |-> MaxLimit])
    \/ process_commands
    \/ transport_returns
    \/ transport_raises

DispatchSpec == Init /\ [][DispatchNext]_vars

(***************************************************************************)
(* Specification of the life of the dispatcher task: submissions, passes   *)
(* that execute, skip or raise, transport calls that return or raise, the  *)
(* panel toggle, and cleanup at any moment.                                *)
(***************************************************************************)
LifetimeNext ==
    \/ \E command_type \in {GUI_COMMAND, PANEL_COMMAND} :
          add_command(command_type, "A", SET_TO, 1, None)
    \/ process_commands
    \/ process_commands_raises
    \/ sleep_returns
    \/ transport_returns
    \/ transport_raises
    \/ \E value \in {0, 1} : set_panel_control(value)
    \/ cleanup
    \/ task_cancelled
    \/ cleanup_returns

LifetimeSpec == Init /\ [][LifetimeNext]_vars

(***************************************************************************)
(* Producers that never stop.  The calls of add_command and the passes of  *)
(* process_commands are those above, without the histories that count      *)
(* them: a producer may submit for ever, and the states stay finitely       *)
(* many.  The clock stands still: the GUI class has no cooldown, so its     *)
(* submissions are accepted at any rate.                                    *)
(***************************************************************************)
\* id(command) of a new ChannelCommand once the commands taken before it are
\* freed: an identity that no queued command has
FreeId(queue) ==
    CHOOSE n \in 1..(Len(queue) + 1) : \A i \in DOMAIN queue : queue[i].id # n

\* add_command(command_type, channel, operation, value, source_id), called
\* with a source_id any number of times; the queue is explored up to
\* MaxCommands queued commands
add_command_unbounded(command_type, channel, operation, value, source_id) ==
    /\ Len(command_queue) < MaxCommands
    /\ source_id # None
    /\ command_sources' = LedgerAfterAdd(command_sources, command_type, source_id, now)
    /\ IF InCooldown(command_sources, command_type, source_id, now)
       THEN UNCHANGED command_queue
       ELSE command_queue' =
               QueuePut(command_queue,
                        ChannelCommand(command_type, channel, operation, value,
                                       source_id, now, FreeId(command_queue)))
    /\ UNCHANGED <<now, enable_gui_commands, enable_panel_commands,
                   enable_interaction_commands, enable_interaction_mode_a,
                   enable_interaction_mode_b, last_strength, pc_dispatch,
                   transport_call, n_commands, last_taken, n_executed,
                   gets_since_put, last_add, last_accepted>>
    /\ UNCHANGED <<taken, n_transport_errors, dispatched, last_pass, pc_cleanup,
                   busVars, plgVars, sideVars>>

\* process_commands: one pass of the loop, from command_queue.get() to the
\* first await of the transport (or to the end of the pass), any number of
\* times
process_commands_unbounded ==
    /\ pc_dispatch = "get"
    /\ command_queue # <<>>
    /\ LET got == QueueGet(command_queue)
           command == got.item
           current_time == now
           last_command_time == DictGet(command_sources, command.source_id, 0)
           cooldown == source_cooldowns(command.command_type)
       IN  /\ command_queue' = got.heap
           /\ last_taken' = <<command>>
           /\ IF current_time - last_command_time < cooldown
              THEN UNCHANGED <<command_sources, pc_dispatch, transport_call>>
              ELSE /\ command_sources' = DictSet(command_sources, command.source_id, current_time)
                   /\ IF ClassEnabled(command)
                      THEN /\ transport_call' = execute_command(last_strength, command)
                           /\ pc_dispatch' = IF execute_command(last_strength, command) = <<>>
                                             THEN "get" ELSE "transport"
                      ELSE UNCHANGED <<pc_dispatch, transport_call>>
    /\ UNCHANGED <<now, enable_gui_commands, enable_panel_commands,
                   enable_interaction_commands, enable_interaction_mode_a,
                   enable_interaction_mode_b, last_strength, n_commands, n_executed,
                   gets_since_put, last_add, last_accepted>>
    /\ UNCHANGED <<taken, n_transport_errors, dispatched, last_pass, pc_cleanup,
                   busVars, plgVars, sideVars>>

(***************************************************************************)
(* Specification of the dispatcher under producers that never stop: GUI    *)
(* and PANEL submissions, the panel toggle, and a dispatcher that is       *)
(* scheduled whenever it can run, against a transport whose calls return.  *)
(***************************************************************************)
StarveNext ==
    \/ \E command_type \in {GUI_COMMAND, PANEL_COMMAND} :
          add_command_unbounded(command_type, "A", SET_TO, 1, "panel")
    \/ process_commands_unbounded
    \/ transport_returns
    \/ \E value \in {0, 1} : set_panel_control(value)

StarveSpec ==
    /\ Init
    /\ [][StarveNext]_vars
    /\ WF_vars(process_commands_unbounded)
    /\ WF_vars(transport_returns)

(***************************************************************************)
(* Plugin strength helpers (plugin.py): Plugin.set_strength and            *)
(* Plugin.adjust_strength await the controller's set_strength and          *)
(* adjust_strength themselves; no ChannelCommand is built and add_command  *)
(* is not called.                                                          *)
(***************************************************************************)
\* What a plugin's helper leaves in flight: the controller's call, if any,
\* with the plugin that asked for it.
PluginCall(plugin_id, call) ==
    IF call = <<>> THEN <<>> ELSE <<[call |-> call[1], plugin_id |-> plugin_id]>>

\* Plugin.set_strength(channel, value), lines 208-219, up to the await of
\* client.set_strength inside DGLabController.set_strength
Plugin_set_strength(plugin_id, channel, value) ==
    /\ plugin_id \in DOMAIN instances
    /\ plugin_call = <<>>
    /\ instances[plugin_id].enabled
    /\ plugin_call' = PluginCall(plugin_id, set_strength(last_strength, channel, value))
    /\ UNCHANGED <<fire_mode_lock, fire_mode_active, fire_mode_origin_strength_a,
                   fire_mode_origin_strength_b, fire, pulseVars, restVars>>
    /\ UNCHANGED <<now, command_queue, command_sources, enable_gui_commands,
                   enable_panel_commands, enable_interaction_commands,
                   enable_interaction_mode_a, enable_interaction_mode_b,
                   last_strength, pc_dispatch, transport_call, n_commands, last_taken,
                   n_executed, gets_since_put, last_add, last_accepted>>
    /\ UNCHANGED <<taken, n_transport_errors, dispatched, last_pass, pc_cleanup,
                   busVars, plgVars>>

\* Plugin.adjust_strength(channel, delta), lines 221-232, up to the await of
\* client.set_strength inside DGLabController.adjust_strength, which makes
\* no call before the first strength report (line 172)
Plugin_adjust_strength(plugin_id, channel, delta) ==
    /\ plugin_id \in DOMAIN instances
    /\ plugin_call = <<>>
    /\ instances[plugin_id].enabled
    /\ last_strength # <<>>
    /\ plugin_call' = PluginCall(plugin_id, adjust_strength(last_strength, channel, delta))
    /\ UNCHANGED <<fire_mode_lock, fire_mode_active, fire_mode_origin_strength_a,
                   fire_mode_origin_strength_b, fire, pulseVars, restVars>>
    /\ UNCHANGED <<now, command_queue, command_sources, enable_gui_commands,
                   enable_panel_commands, enable_interaction_commands,
                   enable_interaction_mode_a, enable_interaction_mode_b,
                   last_strength, pc_dispatch, transport_call, n_commands, last_taken,
                   n_executed, gets_since_put, last_add, last_accepted>>
    /\ UNCHANGED <<taken, n_transport_errors, dispatched, last_pass, pc_cleanup,
                   busVars, plgVars>>

\* client.set_strength returns to, or raises into, the plugin's helper: the
\* controller (line 165) or the helper (lines 218, 231) logs the exception
plugin_call_returns ==
    /\ plugin_call # <<>>
    /\ plugin_call' = <<>>
    /\ UNCHANGED <<fire_mode_lock, fire_mode_active, fire_mode_origin_strength_a,
                   fire_mode_origin_strength_b, fire, pulseVars, restVars>>
    /\ UNCHANGED <<now, command_queue, command_sources, enable_gui_commands,
                   enable_panel_commands, enable_interaction_commands,
                   enable_interaction_mode_a, enable_interaction_mode_b,
                   last_strength, pc_dispatch, transport_call, n_commands, last_taken,
                   n_executed, gets_since_put, last_add, last_accepted>>
    /\ UNCHANGED <<taken, n_transport_errors, dispatched, last_pass, pc_cleanup,
                   busVars, plgVars>>

(***************************************************************************)
(* Specification of the dispatcher next to plugins that use their strength *)
(* helpers.                                                                *)
(***************************************************************************)
DirectNext ==
    \/ \E plugin_class \in PluginClasses : register_plugin(plugin_class)
    \/ \E plugin_name \in DOMAIN plugins : enable_plugin(plugin_name, "True")
    \/ \E plugin_name \in DOMAIN plugins : disable_plugin(plugin_name, "return")
    \/ \E plugin_id \in DOMAIN instances, value \in {0, 1} :
          Plugin_set_strength(plugin_id, "A", value)
    \/ \E plugin_id \in DOMAIN instances, delta \in {-1, 1} :
          Plugin_adjust_strength(plugin_id, "A", delta)
    \/ plugin_call_returns
    \/ update_strength([a |-> 0, b |-> 0, a_limit |-> MaxLimit, b_limit |-> MaxLimit])
    \/ add_command(GUI_COMMAND, "A", SET_TO, 1, None)
    \/ process_commands
    \/ transport_returns

DirectSpec == PluginInit /\ [][DirectNext]_vars

(***************************************************************************)
(* One-shot fire mode (dglab_controller.py, strength_fire_mode): the whole *)
(* body runs inside `async with self.fire_mode_lock`.  An invocation is at *)
(* "idle" (not called), "waiting" (in Lock.acquire), "fire_call" (awaiting *)
(* the call that sets the fire strength), "sleep" (asyncio.sleep(2)),      *)
(* "restore_call" (awaiting the call that restores), "done", "raised" or  *)
(* "cancelled".                                                            *)
(***************************************************************************)
Invocations == 1..MaxInvocations

\* The strengths a caller may hand over as last_strength: none, or a report.
LastStrengths ==
    {<<>>,
     <<[a |-> 0, b |-> 1, a_limit |-> MaxLimit, b_limit |-> MaxLimit]>>,
     <<[a |-> 1, b |-> 0, a_limit |-> MaxLimit, b_limit |-> MaxLimit]>>}

\* asyncio.Lock.acquire returns at once when the lock is not held and has
\* no waiter; otherwise the caller queues behind the waiters.
FreeLock(lock) == lock.holder = <<>> /\ lock.waiters = <<>>

\* Leaving `async with`: Lock.release; the first waiter is woken and takes
\* the lock when it runs.
Released(lock) == [lock EXCEPT !.holder = <<>>]

\* Lines 273-282, run by invocation i once it holds the lock, up to its
\* first await or to the end of the `async with` block.
fire_body(i, inv, waiters) ==
    IF inv.value /\ ~fire_mode_active
    THEN /\ fire_mode_active' = TRUE
         /\ fire_mode_origin_strength_a' =
               IF inv.last_strength # <<>> THEN inv.last_strength[1].a
               ELSE fire_mode_origin_strength_a
         /\ fire_mode_origin_strength_b' =
               IF inv.last_strength # <<>> THEN inv.last_strength[1].b
               ELSE fire_mode_origin_strength_b
         /\ fire_mode_lock' = [holder |-> <<i>>, waiters |-> waiters]
         /\ fire' = [fire EXCEPT ![i] =
                        [inv EXCEPT !.pc = "fire_call",
                                    !.call = <<[channel |-> inv.channel,
                                                value |-> inv.fire_strength]>>]]
    ELSE /\ fire_mode_lock' = [holder |-> <<>>, waiters |-> waiters]
         /\ fire' = [fire EXCEPT ![i] = [inv EXCEPT !.pc = "done"]]
         /\ UNCHANGED <<fire_mode_active, fire_mode_origin_strength_a,
                        fire_mode_origin_strength_b>>

\* History: a fire-mode sequence is in progress, i.e. some invocation has
\* set the fire strength and has not finished its sequence.
SequenceInProgress ==
    \E j \in Invocations : fire[j].pc \in {"fire_call", "sleep", "restore_call"}

\* What no fire-mode step changes.
FireFrame ==
    /\ UNCHANGED <<plugin_call, pulseVars, restVars>>
    /\ UNCHANGED <<now, command_queue, command_sources, enable_gui_commands,
                   enable_panel_commands, enable_interaction_commands,
                   enable_interaction_mode_a, enable_interaction_mode_b,
                   last_strength, pc_dispatch, transport_call, n_commands, last_taken,
                   n_executed, gets_since_put, last_add, last_accepted>>
    /\ UNCHANGED <<taken, n_transport_errors, dispatched, last_pass, pc_cleanup,
                   busVars, plgVars>>

\* A plausible slip: neither the lock nor the fire_mode_active test; every
\* pressed invocation saves the strengths and fires at once.
strength_fire_mode_unguarded(i, value, channel, fire_strength, strength) ==
    /\ fire[i].pc = "idle"
    /\ \A j \in 1..(i - 1) : fire[j].pc # "idle"
    /\ LET inv == [pc |-> "idle", value |-> value, channel |-> channel,
                   fire_strength |-> fire_strength, last_strength |-> strength,
                   call |-> <<>>, arrived_during |-> SequenceInProgress]
       IN  IF value
           THEN /\ fire_mode_active' = TRUE
                /\ fire_mode_origin_strength_a' =
                      IF strength # <<>> THEN strength[1].a ELSE fire_mode_origin_strength_a
                /\ fire_mode_origin_strength_b' =
                      IF strength # <<>> THEN strength[1].b ELSE fire_mode_origin_strength_b
                /\ fire' = [fire EXCEPT ![i] =
                               [inv EXCEPT !.pc = "fire_call",
                                           !.call = <<[channel |-> channel,
                                                       value |-> fire_strength]>>]]
                /\ UNCHANGED fire_mode_lock
           ELSE /\ fire' = [fire EXCEPT ![i] = [inv EXCEPT !.pc = "done"]]
                /\ UNCHANGED <<fire_mode_lock, fire_mode_active,
                               fire_mode_origin_strength_a, fire_mode_origin_strength_b>>
    /\ FireFrame

\* strength_fire_mode(value, channel, fire_strength, last_strength) is
\* called: invocation i enters `async with self.fire_mode_lock` (line 272)
\* and either runs on or waits for the lock.  Invocations are numbered in
\* the order of their calls.
strength_fire_mode(i, value, channel, fire_strength, strength) ==
    /\ fire[i].pc = "idle"
    /\ \A j \in 1..(i - 1) : fire[j].pc # "idle"
    /\ LET inv == [pc |-> "idle", value |-> value, channel |-> channel,
                   fire_strength |-> fire_strength, last_strength |-> strength,
                   call |-> <<>>, arrived_during |-> SequenceInProgress]
       IN  IF FreeLock(fire_mode_lock)
           THEN fire_body(i, inv, <<>>)
           ELSE /\ fire_mode_lock' =
                      [fire_mode_lock EXCEPT !.waiters = Append(@, i)]
                /\ fire' = [fire EXCEPT ![i] = [inv EXCEPT !.pc = "waiting"]]
                /\ UNCHANGED <<fire_mode_active, fire_mode_origin_strength_a,
                               fire_mode_origin_strength_b>>
    /\ FireFrame

\* The first waiter is resumed after a release and takes the lock.
fire_lock_acquired(i) ==
    /\ fire[i].pc = "waiting"
    /\ fire_mode_lock.holder = <<>>
    /\ fire_mode_lock.waiters # <<>>
    /\ Head(fire_mode_lock.waiters) = i
    /\ fire_body(i, fire[i], Tail(fire_mode_lock.waiters))
    /\ FireFrame

\* client.set_strength returns: after the fire call the invocation sleeps
\* (line 285); after the restore call it clears fire_mode_active (line 296)
\* and leaves the block.
fire_transport_returns(i) ==
    /\ fire[i].pc \in {"fire_call", "restore_call"}
    /\ IF fire[i].pc = "fire_call"
       THEN /\ fire' = [fire EXCEPT ![i].pc = "sleep", ![i].call = <<>>]
            /\ UNCHANGED <<fire_mode_lock, fire_mode_active>>
       ELSE /\ fire' = [fire EXCEPT ![i].pc = "done", ![i].call = <<>>]
            /\ fire_mode_active' = FALSE
            /\ fire_mode_lock' = Released(fire_mode_lock)
    /\ UNCHANGED <<fire_mode_origin_strength_a, fire_mode_origin_strength_b>>
    /\ FireFrame

\* client.set_strength raises: nothing in strength_fire_mode catches it, the
\* exception leaves the block (the lock is released) and fire_mode_active
\* keeps its value.
fire_transport_raises(i) ==
    /\ fire[i].pc \in {"fire_call", "restore_call"}
    /\ fire' = [fire EXCEPT ![i].pc = "raised", ![i].call = <<>>]
    /\ fire_mode_lock' = Released(fire_mode_lock)
    /\ UNCHANGED <<fire_mode_active, fire_mode_origin_strength_a,
                   fire_mode_origin_strength_b>>
    /\ FireFrame

\* The sequence without i, in order.
Without(waiters, i) == SelectSeq(waiters, LAMBDA w : w # i)

\* The task that runs invocation i is cancelled at the await it is
\* suspended in: CancelledError leaves Lock.acquire (the waiter is dropped)
\* or the `async with` block (the lock is released); nothing in
\* strength_fire_mode catches it and fire_mode_active keeps its value.
fire_cancelled(i) ==
    /\ fire[i].pc \in {"waiting", "fire_call", "sleep", "restore_call"}
    /\ fire' = [fire EXCEPT ![i].pc = "cancelled", ![i].call = <<>>]
    /\ fire_mode_lock' =
          IF fire[i].pc = "waiting"
          THEN [fire_mode_lock EXCEPT !.waiters = Without(@, i)]
          ELSE Released(fire_mode_lock)
    /\ UNCHANGED <<fire_mode_active, fire_mode_origin_strength_a,
                   fire_mode_origin_strength_b>>
    /\ FireFrame

\* asyncio.sleep(2) returns: lines 288-296
fire_sleep_returns(i) ==
    /\ fire[i].pc = "sleep"
    /\ IF fire[i].last_strength # <<>>
       THEN /\ fire' = [fire EXCEPT
                          ![i].pc = "restore_call",
                          ![i].call = <<[channel |-> fire[i].channel,
                                         value |-> IF fire[i].channel = "A"
                                                   THEN fire_mode_origin_strength_a
                                                   ELSE fire_mode_origin_strength_b]>>]
            /\ UNCHANGED <<fire_mode_lock, fire_mode_active>>
       ELSE /\ fire' = [fire EXCEPT ![i].pc = "done"]
            /\ fire_mode_active' = FALSE
            /\ fire_mode_lock' = Released(fire_mode_lock)
    /\ UNCHANGED <<fire_mode_origin_strength_a, fire_mode_origin_strength_b>>
    /\ FireFrame

(***************************************************************************)
(* Specification of overlapping fire-mode invocations.                     *)
(***************************************************************************)
FireNext ==
    \/ \E i \in Invocations, value \in BOOLEAN, channel \in {"A", "B"},
          strength \in LastStrengths :
          strength_fire_mode(i, value, channel, MaxLimit, strength)
    \/ \E i \in Invocations : fire_lock_acquired(i)
    \/ \E i \in Invocations : fire_transport_returns(i)
    \/ \E i \in Invocations : fire_transport_raises(i)
    \/ \E i \in Invocations : fire_sleep_returns(i)
    \/ \E i \in Invocations : fire_cancelled(i)

FireSpec == Init /\ [][FireNext]_vars

(***************************************************************************)
(* Waveform maintenance (dglab_controller.py, periodic_send_pulse_data and *)
(* send_pulse_data).  pulse_last_update_time starts empty (line 64) and is *)
(* written by send_pulse_data alone (line 416).                            *)
(***************************************************************************)
PulseStaleAfter == 3

\* Lines 383-384 and 388-389: the loop sends for a channel when the channel
\* has an entry in pulse_last_update_time and the entry is more than 3 old.
Due(times, channel, current_time) ==
    /\ channel \in DOMAIN times
    /\ current_time - times[channel] > PulseStaleAfter

\* One iteration of the loop of periodic_send_pulse_data, lines 375-394,
\* when its sleep(1) has ended; `delivered` are the channels for which
\* send_pulse_data finds waveform data and client.set_pulse returns (it
\* records the time only then, lines 409-416).  The iteration holds
\* pulse_update_lock, which nothing else takes.
periodic_send_pulse_data(delivered) ==
    /\ now >= pulse_wake
    /\ LET sent == IF last_strength # <<>>
                   THEN {channel \in {"A", "B"} :
                            Due(pulse_last_update_time, channel, now)}
                   ELSE {}
           pushed == sent \cap delivered
       IN  /\ pulse_last_update_time' =
                 [channel \in DOMAIN pulse_last_update_time \cup pushed |->
                     IF channel \in pushed THEN now
                     ELSE pulse_last_update_time[channel]]
           /\ last_poll' = <<[time |-> now, received |-> last_strength # <<>>,
                              before |-> pulse_last_update_time,
                              sent |-> sent, pushed |-> pushed]>>
    /\ pulse_wake' = now + 1
    /\ UNCHANGED <<fire_mode_lock, fire_mode_active, fire_mode_origin_strength_a,
                   fire_mode_origin_strength_b, fire, plugin_call, restVars>>
    /\ UNCHANGED <<now, command_queue, command_sources, enable_gui_commands,
                   enable_panel_commands, enable_interaction_commands,
                   enable_interaction_mode_a, enable_interaction_mode_b,
                   last_strength, pc_dispatch, transport_call, n_commands, last_taken,
                   n_executed, gets_since_put, last_add, last_accepted>>
    /\ UNCHANGED <<taken, n_transport_errors, dispatched, last_pass, pc_cleanup,
                   busVars, plgVars>>

(***************************************************************************)
(* Specification of the maintenance loop under a running clock and         *)
(* strength reports.                                                       *)
(***************************************************************************)
PulseNext ==
    \/ Tick
    \/ \E strength_data \in StrengthData : update_strength(strength_data)
    \/ \E delivered \in SUBSET {"A", "B"} : periodic_send_pulse_data(delivered)

PulseSpec == Init /\ [][PulseNext]_vars

(***************************************************************************)
(* Long-press mode switching (dglab_controller.py, set_mode and            *)
(* set_mode_timer_handle as a task).  mode_toggle_timer holds the task     *)
(* that set_mode created last: the channel it was created for, the time    *)
(* its asyncio.sleep(1) ends, and whether it is "sleeping" (created, not   *)
(* yet past its sleep) or "done".  Time is in seconds.                     *)
(***************************************************************************)
\* History: the press that is still open, if any, ends at time t.
EndPress(history, t) ==
    [k \in DOMAIN history |->
        IF history[k].ended = <<>> THEN [history[k] EXCEPT !.ended = <<t>>]
        ELSE history[k]]

\* What no step of the long-press timer changes.
TimerFrame ==
    /\ UNCHANGED <<fire_mode_lock, fire_mode_active, fire_mode_origin_strength_a,
                   fire_mode_origin_strength_b, fire, plugin_call, pulseVars,
                   last_load, enableVars>>
    /\ UNCHANGED <<now, command_queue, command_sources, enable_gui_commands,
                   enable_panel_commands, last_strength, pc_dispatch,
                   transport_call, n_commands, last_taken, n_executed, gets_since_put,
                   last_add, last_accepted>>
    /\ UNCHANGED <<taken, n_transport_errors, dispatched, last_pass, pc_cleanup,
                   busVars, plgVars>>

\* set_mode(value, channel), lines 224-237.  Task.cancel() cancels a task
\* that has not got past its sleep, also when the sleep's time is over and
\* the task has not been resumed yet, and leaves a finished task as it is;
\* the task set_mode cancels is the one it forgets or replaces.
set_mode(value, channel) ==
    /\ IF value
       THEN /\ Len(presses) < MaxPresses
            /\ mode_toggle_timer' =
                  <<[channel |-> channel, wakes |-> now + 1, pc |-> "sleeping",
                     press |-> Len(presses) + 1]>>
            /\ presses' = Append(EndPress(presses, now),
                                 [channel |-> channel, time |-> now, toggled |-> 0,
                                  ended |-> <<>>])
       ELSE /\ mode_toggle_timer' = <<>>
            /\ presses' = EndPress(presses, now)
    /\ UNCHANGED <<enable_interaction_mode_a, enable_interaction_mode_b,
                   enable_interaction_commands>>
    /\ TimerFrame

\* The task of set_mode_timer_handle(channel) gets past `await
\* asyncio.sleep(1)` (line 243) and runs to its end, lines 245-266
set_mode_timer_handle_resumes ==
    /\ mode_toggle_timer # <<>>
    /\ mode_toggle_timer[1].pc = "sleeping"
    /\ now >= mode_toggle_timer[1].wakes
    /\ LET channel == mode_toggle_timer[1].channel
       IN  /\ enable_interaction_mode_a' =
                 IF channel = "A" THEN ~enable_interaction_mode_a
                 ELSE enable_interaction_mode_a
           /\ enable_interaction_mode_b' =
                 IF channel = "B" THEN ~enable_interaction_mode_b
                 ELSE enable_interaction_mode_b
           /\ enable_interaction_commands' =
                 (enable_interaction_mode_a' \/ enable_interaction_mode_b')
    /\ mode_toggle_timer' = <<[mode_toggle_timer[1] EXCEPT !.pc = "done"]>>
    /\ presses' = [presses EXCEPT ![mode_toggle_timer[1].press].toggled = @ + 1]
    /\ TimerFrame

(***************************************************************************)
(* Specification of presses and releases under a running clock.            *)
(***************************************************************************)
LongPressNext ==
    \/ Tick
    \/ \E value \in BOOLEAN, channel \in Channel : set_mode(value, channel)
    \/ set_mode_timer_handle_resumes

LongPressSpec == Init /\ [][LongPressNext]_vars

(***************************************************************************)
(* Properties of the command queue                                         *)
(***************************************************************************)
\* The dispatcher took a command in this step.
Took == Len(command_queue') < Len(command_queue)

\* Command c does not come before command d: its class rank is not lower,
\* and within one class its timestamp is not earlier.
NotBefore(c, d) ==
    /\ CommandTypeValue(c.command_type) >= CommandTypeValue(d.command_type)
    /\ (c.command_type = d.command_type => c.timestamp >= d.timestamp)

\* C1: whenever process_commands takes a command from the queue, the command
\* is one of the queued commands and a minimum of them: no queued command
\* has a strictly lower class rank, and no queued command of the same class
\* has a strictly earlier timestamp (so a queued GUI command goes before a
\* queued PANEL command).
C1_TakesMinimum ==
    [][Took =>
        /\ \E i \in DOMAIN command_queue : command_queue[i] = last_taken'[1]
        /\ \A i \in DOMAIN command_queue : NotBefore(command_queue[i], last_taken'[1])]_vars

\* C1 witness: a GUI command was taken although a PANEL command submitted
\* earlier was, and still is, in the queue.
C1_Witness ==
    /\ last_taken # <<>>
    /\ gets_since_put = 1
    /\ last_taken[1].command_type = GUI_COMMAND
    /\ \E i \in DOMAIN command_queue :
          /\ command_queue[i].command_type = PANEL_COMMAND
          /\ command_queue[i].timestamp < last_taken[1].timestamp

\* C2 as stated: the sequence of commands processed by the dispatcher is
\* non-decreasing in class rank and, within a class, in timestamp, whatever
\* the interleaving of submissions and dispatcher steps: every command taken
\* is not before the command taken just before it.
C2_ProcessedNonDecreasing ==
    [][(Took /\ last_taken # <<>>) => NotBefore(last_taken'[1], last_taken[1])]_vars

\* C2 amended: two commands taken one after the other with no submission
\* accepted between the two takes are in non-decreasing order of class rank
\* and, within a class, of timestamp.
C2_NonDecreasingBetweenPuts ==
    [][(Took /\ last_taken # <<>> /\ gets_since_put >= 1)
          => NotBefore(last_taken'[1], last_taken[1])]_vars

\* C2 witness: two submissions of different classes were accepted, then both
\* were taken with no submission in between, the PANEL command last.
C2_Witness ==
    /\ gets_since_put >= 2
    /\ n_commands >= 2
    /\ last_taken # <<>>
    /\ last_taken[1].command_type = PANEL_COMMAND

(***************************************************************************)
(* Properties of the cooldown gate                                         *)
(***************************************************************************)
\* The last add_command call came less than the cooldown of its class after
\* an accepted submission of the same (class, source_id).
WithinCooldown(call) ==
    /\ call.previous_accepted # <<>>
    /\ call.time - call.previous_accepted[1] < source_cooldowns(call.command_type)

\* C3: of two add_command calls with the same (class, source_id), the second
\* less than cooldown[class] after the first, where the first is accepted,
\* the second is not accepted, so exactly one of the two is queued; for the
\* GUI class (cooldown 0) no call is ever that close to an earlier one.
C3_OneAcceptedWithinCooldown ==
    last_add # <<>> => (WithinCooldown(last_add[1]) => ~last_add[1].accepted)

\* C3 witness: a TON submission was accepted and a second one from the same
\* source, later but within the cooldown, was dropped: one command queued.
C3_Witness ==
    /\ last_add # <<>>
    /\ last_add[1].command_type = TON_COMMAND
    /\ WithinCooldown(last_add[1])
    /\ last_add[1].time > last_add[1].previous_accepted[1]
    /\ ~last_add[1].accepted
    /\ n_commands = 1

\* C4: add_command accepts the submission if and only if the pair
\* (class, source_id) has no accepted submission yet or the last accepted one
\* is at least cooldown[class] old.
C4_AcceptedIffCooldownElapsed ==
    last_add # <<>> =>
        (last_add[1].accepted <=>
            \/ last_add[1].previous_accepted = <<>>
            \/ last_add[1].time - last_add[1].previous_accepted[1]
                  >= source_cooldowns(last_add[1].command_type))

\* C4 witness: a PANEL submission from source "panel" is accepted a full
\* cooldown after the last accepted one of the same pair, and after the
\* dispatcher has processed a command of that source.
C4_Witness ==
    /\ last_add # <<>>
    /\ last_add[1].command_type = PANEL_COMMAND
    /\ last_add[1].source_id = "panel"
    /\ last_add[1].previous_accepted # <<>>
    /\ last_add[1].accepted
    /\ "panel" \in DOMAIN command_sources

(***************************************************************************)
(* Properties of the class toggles                                         *)
(***************************************************************************)
\* The class toggle of a command, as the dispatcher reads it.
ClassToggle(command_type) ==
    CASE command_type = GUI_COMMAND -> enable_gui_commands
      [] command_type = PANEL_COMMAND -> enable_panel_commands
      [] command_type = INTERACTION_COMMAND -> enable_interaction_commands
      [] command_type = TON_COMMAND -> TRUE

\* C5: the class toggles are consulted at dispatch time only: an add_command
\* call is rejected only within the cooldown window, a step that changes a
\* toggle leaves the queue as it is, and a command is given to
\* execute_command only if its class toggle is on in the state in which the
\* dispatcher takes it.
C5_TogglesAtDispatchOnly ==
    [][/\ (last_add' # last_add /\ ~last_add'[1].accepted) => WithinCooldown(last_add'[1])
       /\ (<<enable_gui_commands, enable_panel_commands, enable_interaction_commands>>'
             # <<enable_gui_commands, enable_panel_commands, enable_interaction_commands>>)
            => command_queue' = command_queue
       /\ n_executed' # n_executed => (Took /\ ClassToggle(last_taken'[1].command_type))]_vars

\* C5 witness: a PANEL command was accepted and queued while the PANEL
\* toggle was off, it is the only command so far, and the dispatcher took it
\* and did not execute it.
C5_Witness ==
    /\ ~enable_panel_commands
    /\ last_add # <<>>
    /\ last_add[1].accepted
    /\ n_commands = 1
    /\ last_taken # <<>>
    /\ last_taken[1].command_type = PANEL_COMMAND
    /\ n_executed = 0

(***************************************************************************)
(* Properties of the strength operations                                   *)
(***************************************************************************)
\* C6: an INCREASE or DECREASE command (adjust_strength with delta = value
\* or -value, of any sign and magnitude) sends the transport nothing when no
\* strength report has been received, and otherwise one set_strength call
\* for the command's channel with a value in [0, limit of that channel].
C6_AdjustWithinLimit ==
    [][(n_executed' # n_executed /\ last_taken'[1].operation # SET_TO) =>
          IF last_strength = <<>>
          THEN transport_call' = <<>>
          ELSE /\ Len(transport_call') = 1
               /\ transport_call'[1].channel = last_taken'[1].channel
               /\ transport_call'[1].value >= 0
               /\ transport_call'[1].value
                     <= LimitOf(last_strength[1], last_taken'[1].channel)]_vars

\* C6 witness: an INCREASE by more than the limit allows is in flight to the
\* transport with the value of the limit.
C6_Witness ==
    /\ transport_call # <<>>
    /\ last_taken # <<>>
    /\ last_strength # <<>>
    /\ last_taken[1].operation = INCREASE
    /\ last_taken[1].channel = "B"
    /\ last_taken[1].value = MaxDelta
    /\ last_strength[1].b + MaxDelta > last_strength[1].b_limit
    /\ last_strength[1].b_limit > 0
    /\ transport_call[1].via = "adjust_strength"
    /\ transport_call[1].value = last_strength[1].b_limit

(***************************************************************************)
(* Properties of the event bus                                             *)
(***************************************************************************)
\* The place the specification gives a priority in the dispatch order:
\* HIGHEST first, then HIGH, NORMAL, LOW, LOWEST, and MONITOR last.
SpecifiedPlace(priority) ==
    CASE priority = HIGHEST -> 0
      [] priority = HIGH -> 1
      [] priority = NORMAL -> 2
      [] priority = LOW -> 3
      [] priority = LOWEST -> 4
      [] priority = MONITOR -> 5

\* C7: within one emission the handlers of the exact event name are invoked
\* in descending priority order (HIGHEST first, then HIGH, NORMAL, LOW,
\* LOWEST) and MONITOR handlers after all the others, whatever the order of
\* registration.
C7_HighestFirstMonitorLast ==
    \A i, j \in DOMAIN calls :
        (i < j /\ calls[i].tier = "exact" /\ calls[j].tier = "exact")
            => SpecifiedPlace(calls[i].priority) <= SpecifiedPlace(calls[j].priority)

\* C8: if a HIGHEST handler cancels the event, no handler of priority NORMAL
\* or lower registered for the same event name is invoked in that emission
\* (with handlers at HIGHEST, NORMAL and LOWEST the call order is [HIGHEST]).
C8_HighestCancelStopsLower ==
    \A i, j \in DOMAIN calls :
        (/\ calls[i].tier = "exact"
         /\ calls[i].priority = HIGHEST
         /\ calls[i].outcome = "cancel"
         /\ calls[j].tier = "exact")
            => calls[j].priority \notin {NORMAL, LOW, LOWEST}

\* C9: once a handler has set the cancelled flag, the emission invokes no
\* further handler, of any priority, MONITOR included: a step of a running
\* emission that ends with the flag set adds no call.
C9_NoCallAfterCancel ==
    [][(~NoEmission /\ emission' # <<>> /\ emission'[1].cancelled)
          => Len(calls') = Len(calls)]_vars

\* The handlers registered under a name when the emission started.
RegisteredAtStart(event_name) ==
    IF event_name \in DOMAIN event_handlers
    THEN {event_handlers[event_name][i].handler : i \in DOMAIN event_handlers[event_name]}
            \cap (1..emission[1].started_with)
    ELSE {}

\* The handlers the emission has invoked in a tier.
Called(tier) == {calls[i].handler : i \in {k \in DOMAIN calls : calls[k].tier = tier}}

\* C9 witness: the emission has returned cancelled by a handler of the exact
\* name below MONITOR, and a MONITOR handler of that name and a wildcard
\* handler, both registered before the emission, were not invoked.
C9_Witness ==
    /\ emission # <<>>
    /\ emission[1].phase = "returned"
    /\ emission[1].cancelled
    /\ calls[Len(calls)].outcome = "cancel"
    /\ calls[Len(calls)].tier = "exact"
    /\ \E i \in DOMAIN event_handlers["x"] :
          /\ event_handlers["x"][i].priority = MONITOR
          /\ event_handlers["x"][i].handler \in RegisteredAtStart("x") \ Called("exact")
    /\ RegisteredAtStart("*") \ Called("wildcard") # {}

\* C10: a handler that raises does not interrupt the emission: emit never
\* ends by an exception, and an emission that returns without having been
\* cancelled has invoked every handler that was registered for the exact
\* name and for the wildcard when it started, whichever of them raised.
C10_RaiseDoesNotInterrupt ==
    emission # <<>> =>
        /\ emission[1].phase \in {"exact", "wildcard", "returned"}
        /\ (emission[1].phase = "returned" /\ ~emission[1].cancelled) =>
              /\ RegisteredAtStart(emission[1].name) \subseteq Called("exact")
              /\ RegisteredAtStart("*") \subseteq Called("wildcard")

\* C10 witness: the first handler of the exact name raised, and the emission
\* went on to a second handler of that name and to a wildcard handler, and
\* returned.
C10_Witness ==
    /\ emission # <<>>
    /\ emission[1].phase = "returned"
    /\ Len(calls) = 3
    /\ calls[1].outcome = "raise"
    /\ calls[1].tier = "exact"
    /\ calls[2].tier = "exact"
    /\ calls[3].tier = "wildcard"
    /\ calls[2].handler # calls[1].handler

(***************************************************************************)
(* Properties of the plugin life cycle                                     *)
(***************************************************************************)
\* The places <<event name, index>> of the handlers registered on the bus
\* that a plugin owns.
OwnedHandlers(plugin_id) ==
    {place \in UNION {{<<k, i>> : i \in DOMAIN event_handlers[k]} : k \in DOMAIN event_handlers} :
        event_handlers[place[1]][place[2]].plugin = plugin_id}

\* C11: after disable_plugin has returned for a registered plugin, no event
\* handler owned by that plugin is registered on the event bus, under any
\* event name, names with underscores included (so that no later emission
\* finds one to invoke).
C11_NoHandlerAfterDisable ==
    (/\ last_call # <<>>
     /\ last_call[1].op = "disable_plugin"
     /\ last_call[1].plugin # None)
        => OwnedHandlers(last_call[1].plugin) = {}

\* C12: an enable_plugin call on a plugin that is not enabled, whose
\* initialize() returns True, leaves the plugin enabled and has scheduled
\* the emission of a plugin_enabled event carrying that plugin (the event
\* the MONITOR observers are then given).
C12_EnablePublishesPluginEnabled ==
    (/\ last_call # <<>>
     /\ last_call[1].op = "enable_plugin"
     /\ last_call[1].invoked
     /\ last_call[1].outcome = "True")
        => /\ instances[last_call[1].plugin].enabled
           /\ last_call[1].published =
                 <<[event_name |-> "plugin_enabled", plugin |-> last_call[1].plugin]>>

\* C13: an enable_plugin call on a plugin that is not enabled, whose
\* initialize() returns False or raises, changes neither the plugin (it is
\* still not enabled) nor anything else of the registry and of the bus,
\* returns False, schedules no plugin_enabled emission and does not raise.
C13_FailedInitializeChangesNothing ==
    [][\A plugin_name \in DOMAIN plugins :
          (/\ ~instances[plugins[plugin_name]].enabled
           /\ \E initialize \in {"False", "raise"} : enable_plugin(plugin_name, initialize))
             => /\ UNCHANGED <<plugins, instances, plugin_events, tasks, busVars>>
                /\ last_call'[1].invoked
                /\ ~last_call'[1].result
                /\ ~last_call'[1].raised
                /\ last_call'[1].published = <<>>]_vars

\* C13 witness: initialize() of a registered plugin raised, enable_plugin
\* returned False and the plugin is not enabled.
C13_Witness ==
    /\ last_call # <<>>
    /\ last_call[1].op = "enable_plugin"
    /\ last_call[1].outcome = "raise"
    /\ last_call[1].plugin # None
    /\ ~last_call[1].result
    /\ ~instances[last_call[1].plugin].enabled

\* C14: an enable_plugin call on a plugin that an earlier enable_plugin call
\* has left enabled returns False and changes nothing: initialize() is not
\* invoked again, no plugin_enabled emission is scheduled, the plugin stays
\* enabled.
C14_SecondEnableIsNoOp ==
    [][\A plugin_name \in DOMAIN plugins :
          (/\ instances[plugins[plugin_name]].enabled
           /\ \E initialize \in InitializeOutcomes : enable_plugin(plugin_name, initialize))
             => /\ UNCHANGED <<plugins, instances, plugin_events, tasks, busVars>>
                /\ ~last_call'[1].invoked
                /\ ~last_call'[1].result
                /\ ~last_call'[1].raised
                /\ last_call'[1].published = <<>>]_vars

\* C14 witness: enable_plugin was called for a plugin that was enabled: it
\* returned False without invoking initialize(), the plugin is enabled.
C14_Witness ==
    /\ last_call # <<>>
    /\ last_call[1].op = "enable_plugin"
    /\ last_call[1].plugin # None
    /\ ~last_call[1].invoked
    /\ ~last_call[1].result
    /\ instances[last_call[1].plugin].enabled
    /\ last_call[1].plugin \in ever_enabled

\* The plugin has been enabled and is not enabled now.
Disabled(plugin_id) == plugin_id \in ever_enabled /\ ~instances[plugin_id].enabled

\* C15: a disable_plugin call on a plugin that is Disabled does not raise,
\* does not invoke shutdown(), schedules no plugin_disabled emission, and
\* leaves the plugin, the registry and the registrations of the event bus
\* as they are.
C15_DisableDisabledIsNoOp ==
    [][\A plugin_name \in DOMAIN plugins :
          (/\ Disabled(plugins[plugin_name])
           /\ \E shutdown \in ShutdownOutcomes : disable_plugin(plugin_name, shutdown))
             => /\ UNCHANGED <<plugins, instances, plugin_events, tasks, busVars>>
                /\ ~last_call'[1].invoked
                /\ ~last_call'[1].raised
                /\ last_call'[1].published = <<>>]_vars

\* C15 witness: disable_plugin was called for a plugin that had been enabled
\* and disabled: shutdown() was not invoked, the plugin is not enabled, and
\* another plugin still has its handlers on the bus.
C15_Witness ==
    /\ last_call # <<>>
    /\ last_call[1].op = "disable_plugin"
    /\ last_call[1].plugin # None
    /\ ~last_call[1].invoked
    /\ Disabled(last_call[1].plugin)
    /\ \E plugin_id \in DOMAIN instances \ {last_call[1].plugin} :
          OwnedHandlers(plugin_id) # {}

(***************************************************************************)
(* Properties of the dispatcher                                            *)
(***************************************************************************)
\* C16: a transport call that raises does not halt the dispatcher: the
\* exception is absorbed, the command is not queued again, the commands still
\* queued stay queued, and process_commands is back at command_queue.get(),
\* where it takes the next command; the dispatcher is never anywhere but at
\* command_queue.get() or in a transport call.
C16_TransportErrorAbsorbed ==
    [][/\ pc_dispatch' \in {"get", "transport"}
       /\ n_transport_errors' # n_transport_errors =>
             /\ pc_dispatch' = "get"
             /\ command_queue' = command_queue
             /\ taken' = taken]_vars

\* C16 witness: a transport call has raised, and a command taken after that
\* is now being executed against the transport.
C16_Witness ==
    /\ n_transport_errors >= 1
    /\ pc_dispatch = "transport"
    /\ transport_call # <<>>
    /\ last_taken # <<>>

\* The identities of the commands in the queue, and of the commands taken.
QueuedIds == {command_queue[i].id : i \in DOMAIN command_queue}
TakenIds == DOMAIN taken

\* C17: at every moment the accepted commands are the disjoint union of the
\* queued and the taken ones, no command is queued twice or taken twice, and
\* a command is given to execute_command, and a transport call started, only
\* in the step that takes it from the queue for the first time.
C17_TakenOnceNeverLost ==
    [][/\ Cardinality(QueuedIds') = Len(command_queue')
       /\ QueuedIds' \cap TakenIds' = {}
       /\ QueuedIds' \cup TakenIds' = 1..n_commands'
       /\ \A id \in TakenIds' : taken'[id] = 1
       /\ n_executed' # n_executed =>
             /\ n_executed' = n_executed + 1
             /\ Took
             /\ last_taken'[1].id \in QueuedIds \ TakenIds
       /\ (transport_call' # transport_call /\ transport_call' # <<>>) =>
             n_executed' = n_executed + 1]_vars

\* C17 witness: three commands were accepted; one is queued, two were taken,
\* and the one taken last is being executed against the transport.
C17_Witness ==
    /\ n_commands = 3
    /\ Len(command_queue) = 1
    /\ Cardinality(TakenIds) = 2
    /\ n_executed >= 1
    /\ pc_dispatch = "transport"

(***************************************************************************)
(* Properties of the delivery of events to plugins                         *)
(***************************************************************************)
\* C18: whenever an emission invokes a handler, the plugin that owns the
\* handler, if one does, is enabled, and every plugin whose device-event
\* hook a built-in handler calls is enabled: a plugin that is registered and
\* was never enabled, or is disabled, is given nothing.
C18_OnlyEnabledPluginsReceive ==
    [][(/\ calls' # calls
        /\ calls' # <<>>
        /\ calls'[Len(calls')].outcome = "running")
          => /\ \/ calls'[Len(calls')].plugin = None
                \/ instances'[calls'[Len(calls')].plugin].enabled
             /\ \A plugin_id \in calls'[Len(calls')].hooks : instances'[plugin_id].enabled]_vars

\* C19: register_plugin never overwrites an entry of the registry: every
\* key keeps its plugin, the registry grows by one, and a plugin whose name
\* is taken is stored under another key, the name with a suffix.
C19_RegistrationNeverOverwrites ==
    [][\A plugin_class \in PluginClasses :
          register_plugin(plugin_class) =>
             /\ \A k \in DOMAIN plugins : k \in DOMAIN plugins' /\ plugins'[k] = plugins[k]
             /\ Cardinality(DOMAIN plugins') = Cardinality(DOMAIN plugins) + 1
             /\ plugins'[last_call'[1].name] \notin DOMAIN instances
             /\ instances'[plugins'[last_call'[1].name]].name = plugin_class.name
             /\ plugin_class.name \in DOMAIN plugins =>
                   /\ Len(last_call'[1].name) > Len(plugin_class.name)
                   /\ SubSeq(last_call'[1].name, 1, Len(plugin_class.name) + 1)
                         = plugin_class.name \o "_"]_vars

\* C19 witness: two plugins of class P are registered, the first under the
\* key "P" and the second under another key.
C19_Witness ==
    /\ "P" \in DOMAIN plugins
    /\ \E k \in DOMAIN plugins \ {"P"} :
          /\ instances[plugins[k]].name = "P"
          /\ plugins[k] # plugins["P"]
    /\ instances[plugins["P"]].name = "P"

\* C20: the wildcard handlers are dispatched independently of the handlers
\* of the exact name: an emission that has returned has invoked every
\* wildcard handler registered when it started, unless a wildcard handler
\* cancelled the event, whatever the handlers of the exact name did, and it
\* has invoked the wildcard handlers in the order of their priorities.
C20_WildcardIndependent ==
    (emission # <<>> /\ emission[1].phase = "returned") =>
        /\ (\A i \in DOMAIN calls : ~(calls[i].tier = "wildcard" /\ calls[i].outcome = "cancel"))
              => RegisteredAtStart("*") \subseteq Called("wildcard")
        /\ \A i, j \in DOMAIN calls :
              (i < j /\ calls[i].tier = "wildcard" /\ calls[j].tier = "wildcard")
                 => SpecifiedPlace(calls[i].priority) <= SpecifiedPlace(calls[j].priority)

(***************************************************************************)
(* Properties of the cooldown ledger at dispatch and at submission         *)
(***************************************************************************)
\* C21: the cooldown re-check of the dispatcher is per (class, source_id):
\* a command is skipped as in cooldown only if a command of its own class
\* and its own source_id was dispatched before it; the dispatch of a command
\* of another class, or of another source_id, never makes it skipped.
C21_SkippedOnlyForOwnPair ==
    (last_pass # <<>> /\ last_pass[1].skipped) => last_pass[1].own_dispatch # <<>>

\* C22: a submission without source_id is rate-limited under an id of its
\* own: an add_command call that omits source_id is never rejected, whatever
\* other calls of the same class without source_id were accepted before.
C22_OmittedSourceNeverRejected ==
    (last_add # <<>> /\ last_add[1].source_id = None) => last_add[1].accepted

\* The step is an add_command call.
Added == last_add' # last_add \/ n_commands' # n_commands

\* C23: a rejected add_command call leaves the queue and every entry of the
\* ledger as they are (the cooldown window is not extended); an accepted
\* call sets the ledger entry of its own (class, source_id) to now, leaves
\* every other entry as it is, and adds exactly one command, of its class
\* and stamped now, to the queue, whose other commands all stay.
C23_AddCommandFrame ==
    [][Added =>
        LET call == last_add'[1]
            key == SourceKey(call.command_type, call.source_id)
        IN  IF ~call.accepted
            THEN /\ command_queue' = command_queue
                 /\ command_sources' = command_sources
            ELSE /\ DOMAIN command_sources' = DOMAIN command_sources \cup {key}
                 /\ command_sources'[key] = now
                 /\ \A k \in DOMAIN command_sources \ {key} :
                       command_sources'[k] = command_sources[k]
                 /\ Len(command_queue') = Len(command_queue) + 1
                 /\ \E i \in DOMAIN command_queue' :
                       /\ command_queue'[i].id = n_commands'
                       /\ command_queue'[i].id \notin QueuedIds
                       /\ command_queue'[i].command_type = call.command_type
                       /\ command_queue'[i].timestamp = now
                       /\ {command_queue'[j] : j \in DOMAIN command_queue' \ {i}}
                             = {command_queue[j] : j \in DOMAIN command_queue}]_vars

\* C23 witness: a PANEL submission was rejected one tick after the accepted
\* one of its pair, whose ledger entry still holds the time of the accepted
\* one, while the ledger has an entry of another pair and the accepted
\* command is still queued.
C23_Witness ==
    /\ last_add # <<>>
    /\ ~last_add[1].accepted
    /\ last_add[1].command_type = PANEL_COMMAND
    /\ last_add[1].time = last_add[1].previous_accepted[1] + 1
    /\ command_sources[SourceKey(PANEL_COMMAND, last_add[1].source_id)]
          = last_add[1].previous_accepted[1]
    /\ Cardinality(DOMAIN command_sources) >= 2
    /\ \E i \in DOMAIN command_queue : command_queue[i].command_type = PANEL_COMMAND

(***************************************************************************)
(* Properties of the interaction modes                                     *)
(***************************************************************************)
\* The interaction mode of a channel.
InteractionMode(channel) ==
    IF channel = "A" THEN enable_interaction_mode_a ELSE enable_interaction_mode_b

\* C24: an INTERACTION command the dispatcher takes (and does not skip as in
\* cooldown) is given to execute_command if and only if the interaction mode
\* of its own channel is on in the state in which it is taken; the mode of
\* the other channel makes no difference.
C24_InteractionNeedsTargetMode ==
    [][(/\ Took
        /\ last_taken'[1].command_type = INTERACTION_COMMAND
        /\ ~last_pass'[1].skipped)
          => (n_executed' # n_executed <=> InteractionMode(last_taken'[1].channel))]_vars

\* C24 witness: an INTERACTION command for channel B is being executed
\* against the transport while the mode of B is on and the mode of A is off,
\* after an INTERACTION command was taken and not executed.
C24_Witness ==
    /\ last_taken # <<>>
    /\ last_taken[1].command_type = INTERACTION_COMMAND
    /\ last_taken[1].channel = "B"
    /\ enable_interaction_mode_b
    /\ ~enable_interaction_mode_a
    /\ transport_call # <<>>
    /\ transport_call[1].channel = "B"
    /\ n_executed = 1
    /\ Cardinality(TakenIds) = 2

(***************************************************************************)
(* Liveness of the dispatcher                                              *)
(***************************************************************************)
\* The command of this identity is in the queue.
Queued(id) == id \in QueuedIds

\* The command of this identity was taken by the dispatcher, the last one.
TakenLast(id) == ~Queued(id) /\ last_taken # <<>> /\ last_taken[1].id = id

\* C25 as stated: under a dispatcher that is scheduled fairly, every command
\* accepted into the queue is eventually taken, also while producers keep
\* submitting commands of higher-priority classes.
C25_EveryCommandTaken ==
    \A id \in 1..MaxCommands : Queued(id) ~> TakenLast(id)

\* A command is put in this step that the queue order does not place after
\* the queued command of this identity.
PutNotAfter(id) ==
    /\ Queued(id)
    /\ Len(command_queue') > Len(command_queue)
    /\ \E i \in DOMAIN command_queue', j \in DOMAIN command_queue :
          /\ command_queue'[i].id \notin QueuedIds
          /\ command_queue[j].id = id
          /\ ~lt(command_queue[j], command_queue'[i])

\* C25 amended: under a dispatcher that is scheduled fairly, every command
\* accepted into the queue is eventually taken, unless the producers keep
\* submitting, for ever, commands that the queue order does not place after
\* it.
C25_TakenUnlessOvertakenForEver ==
    \A id \in 1..MaxCommands :
        \/ []<><<PutNotAfter(id)>>_vars
        \/ Queued(id) ~> TakenLast(id)

\* C25 witness: the PANEL command was taken last, after a GUI command
\* submitted later than it, and a GUI command is queued again.
C25_Witness ==
    /\ last_taken # <<>>
    /\ last_taken[1].command_type = PANEL_COMMAND
    /\ command_queue # <<>>
    /\ \A i \in DOMAIN command_queue : command_queue[i].command_type = GUI_COMMAND
    /\ "panel" \in DOMAIN command_sources
    /\ pc_dispatch = "get"

(***************************************************************************)
(* Properties of the life of the dispatcher task                           *)
(***************************************************************************)
\* C26: process_commands never ends on its own: as long as cleanup has not
\* cancelled it, it is at command_queue.get(), in a transport call or in its
\* back-off sleep, whatever commands, toggles and errors occur; once
\* cancelled it takes no command, executes none and starts no transport
\* call, and it has ended, and stays ended, when cleanup has returned.
C26_EndsOnlyWhenCancelled ==
    [][/\ pc_dispatch' \in {"get", "transport", "sleep", "cancelling", "cancelled"}
       /\ pc_cleanup' = "idle" => pc_dispatch' \in {"get", "transport", "sleep"}
       /\ pc_cleanup' = "returned" => pc_dispatch' = "cancelled"
       /\ pc_dispatch = "cancelled" => pc_dispatch' = "cancelled"
       /\ pc_dispatch \in {"cancelling", "cancelled"} =>
             /\ ~Took
             /\ taken' = taken
             /\ n_executed' = n_executed
             /\ transport_call' = <<>>]_vars

\* C26 witness: a pass raised and a transport call raised before cleanup was
\* called; cleanup has returned, the task has ended, and a command accepted
\* after that stays in the queue.
C26_Witness ==
    /\ pc_cleanup = "returned"
    /\ pc_dispatch = "cancelled"
    /\ n_transport_errors >= 1
    /\ Cardinality(TakenIds) = 2
    /\ n_executed = 1
    /\ command_queue # <<>>

(***************************************************************************)
(* Properties of disable and of the handlers of an enabled plugin          *)
(***************************************************************************)
\* C27: a disable_plugin call on a plugin that is enabled invokes shutdown()
\* and leaves the plugin not enabled, also when shutdown() raises, and it
\* has scheduled the emission of a plugin_disabled event carrying that
\* plugin.
C27_DisableLeavesDisabledAndPublishes ==
    (/\ last_call # <<>>
     /\ last_call[1].op = "disable_plugin"
     /\ last_call[1].invoked)
        => /\ ~instances[last_call[1].plugin].enabled
           /\ last_call[1].published =
                 <<[event_name |-> "plugin_disabled", plugin |-> last_call[1].plugin]>>

\* The handlers a plugin declared, as <<event name, priority>>, and those of
\* its handlers that are registered on the bus.
Declared(plugin_id) ==
    LET class == CHOOSE c \in PluginClasses : c.name = instances[plugin_id].name
    IN  {<<class.event_handlers[i].name, class.event_handlers[i].priority>> :
            i \in DOMAIN class.event_handlers}

Registered(plugin_id) ==
    {<<place[1], event_handlers[place[1]][place[2]].priority>> :
        place \in OwnedHandlers(plugin_id)}

\* C28: whenever a plugin is enabled, every event handler it declared is
\* registered on the event bus, after any sequence of register, enable and
\* disable calls (so that a plugin enabled, disabled and enabled again is
\* given its events again).
C28_EnabledHasItsHandlers ==
    \A plugin_id \in DOMAIN instances :
        instances[plugin_id].enabled => Declared(plugin_id) \subseteq Registered(plugin_id)

(***************************************************************************)
(* Properties of the transport calls                                       *)
(***************************************************************************)
\* The client.set_strength calls in flight, each with the code that made it.
InFlight ==
    {[by |-> "process_commands", call |-> transport_call[k]] : k \in DOMAIN transport_call}
    \cup {[by |-> "Plugin", call |-> plugin_call[k].call] : k \in DOMAIN plugin_call}

\* C29: every client.set_strength call in flight was made by the dispatcher
\* (process_commands) for the command it took from the command queue; no
\* plugin helper has a call of its own in flight.
C29_TransportOnlyFromQueue ==
    \A c \in InFlight : c.by = "process_commands"

(***************************************************************************)
(* Properties of the fire mode                                             *)
(***************************************************************************)
\* Invocation i has set the fire strength and has not yet restored: it is
\* awaiting the fire call, sleeping, or awaiting the restore call.
InFire(i) == fire[i].pc \in {"fire_call", "sleep", "restore_call"}

\* C30: while an invocation of strength_fire_mode is between setting the
\* fire strength and having restored, no step changes the saved original
\* strengths and no other invocation has a client.set_strength call in
\* flight, before or after the step; the restore call carries the strength
\* the invocation itself saved for its channel.
C30_FireModeNotInterleaved ==
    [][\A i \in Invocations :
          InFire(i) =>
              /\ fire_mode_origin_strength_a' = fire_mode_origin_strength_a
              /\ fire_mode_origin_strength_b' = fire_mode_origin_strength_b
              /\ \A j \in Invocations \ {i} :
                    /\ ~InFire(j)
                    /\ fire'[j].pc \notin {"fire_call", "restore_call"}
              /\ fire'[i].pc = "restore_call" =>
                    fire'[i].call[1].value =
                        IF fire[i].channel = "A" THEN fire[i].last_strength[1].a
                        ELSE fire[i].last_strength[1].b]_vars

\* An invocation that was pressed with other strengths waits for the lock
\* while another one is about to restore the strength it saved.
C30_Witness ==
    \E i, j \in Invocations :
        /\ fire[i].pc = "restore_call"
        /\ fire[j].pc = "waiting"
        /\ fire[j].value
        /\ fire[j].last_strength # <<>>
        /\ fire[j].last_strength # fire[i].last_strength

\* No invocation of strength_fire_mode is in progress: each is not called
\* yet or has returned, raised or been cancelled.
NoneInProgress ==
    \A i \in Invocations : fire[i].pc \in {"idle", "done", "raised", "cancelled"}

\* C31: whenever no strength_fire_mode invocation is in progress,
\* fire_mode_active is false and fire_mode_lock is free.
C31_CleanExit ==
    NoneInProgress => ~fire_mode_active /\ FreeLock(fire_mode_lock)

(***************************************************************************)
(* Properties of the waveform maintenance                                  *)
(***************************************************************************)
\* The channel's waveform is stale at time t: it was never pushed, or its
\* last push is more than 3 old.
Stale(times, channel, t) ==
    channel \notin DOMAIN times \/ t - times[channel] > PulseStaleAfter

\* C32: a poll of the maintenance loop made after device state was received
\* sends the waveform of exactly the channels that are stale, a channel
\* never pushed counting as stale.
C32_StaleChannelsResent ==
    \A k \in DOMAIN last_poll :
        last_poll[k].received =>
            \A channel \in {"A", "B"} :
                channel \in last_poll[k].sent
                    <=> Stale(last_poll[k].before, channel, last_poll[k].time)

(***************************************************************************)
(* Properties of plugin loading                                            *)
(***************************************************************************)
\* C33: after _load_plugin_from_file has succeeded on a file that defines
\* n Plugin subclasses, it has registered n plugin instances.
C33_EveryClassOfFileRegistered ==
    \A k \in DOMAIN last_load :
        Cardinality(last_load[k].registered) = Len(last_load[k].plugin_classes)

(***************************************************************************)
(* Properties of an emission under concurrent registration                 *)
(***************************************************************************)
\* C34: within one emission no handler registration is invoked twice,
\* whatever is registered while the emission is suspended in a handler.
C34_InvokedAtMostOncePerEmission ==
    \A i, j \in DOMAIN calls : i # j => calls[i].handler # calls[j].handler

\* The callables on the handler lists of the bus.
OnTheBus ==
    UNION {{event_handlers[k][n].handler : n \in DOMAIN event_handlers[k]} :
              k \in DOMAIN event_handlers}

\* C35: a handler that an emission invokes is on the bus when it is invoked:
\* a handler that unregister_plugin_events has removed is not invoked any
\* more, not even by an emission that was in progress when it was removed.
C35_RemovedHandlerNotInvoked ==
    [][Len(calls') > Len(calls) => calls'[Len(calls')].handler \in OnTheBus]_vars

(***************************************************************************)
(* Properties of concurrent enable_plugin calls                            *)
(***************************************************************************)
\* Call c has invoked initialize() of the plugin and initialize() has not
\* returned yet.
InInitialize(c, plugin_id) ==
    enable_calls[c].pc = "initialize" /\ enable_calls[c].plugin = plugin_id

\* C36: whatever the interleaving of concurrent enable_plugin calls for a
\* plugin that is not enabled, only one of them invokes initialize(): no
\* two calls are inside initialize() of the plugin together; and no two
\* calls for the plugin both report success.
C36_InitializeAtMostOnce ==
    \A b, c \in 1..MaxEnableCalls :
        b # c =>
            /\ \A plugin_id \in DOMAIN instances :
                  ~(InInitialize(b, plugin_id) /\ InInitialize(c, plugin_id))
            /\ (/\ enable_calls[b].pc = "returned"
                /\ enable_calls[c].pc = "returned"
                /\ enable_calls[b].plugin = enable_calls[c].plugin)
               => ~(enable_calls[b].result /\ enable_calls[c].result)

(***************************************************************************)
(* Properties of the result of enable_plugin                               *)
(***************************************************************************)
\* C37: an enable_plugin call on a registered plugin that was not enabled
\* (so that initialize() was invoked) returns True exactly if the plugin is
\* enabled after the call.
C37_EnableResultAgreesWithState ==
    (/\ last_call # <<>>
     /\ last_call[1].op = "enable_plugin"
     /\ last_call[1].invoked)
        => (last_call[1].result <=> instances[last_call[1].plugin].enabled)

(***************************************************************************)
(* Properties of the values sent to the transport                          *)
(***************************************************************************)
\* C38: once a strength report has been received, the set_strength call
\* made for a command, whatever its operation, carries a value in
\* [0, limit last reported for the call's channel].
C38_EveryValueWithinLimit ==
    [][(n_executed' # n_executed /\ last_strength # <<>>) =>
          \A k \in DOMAIN transport_call' :
              /\ transport_call'[k].value >= 0
              /\ transport_call'[k].value
                    <= LimitOf(last_strength[1], transport_call'[k].channel)]_vars

\* C39: a pressed strength_fire_mode request that arrived while a fire-mode
\* sequence was in progress never starts a sequence of its own and never
\* has a transport call.
C39_OverlappingRequestIgnored ==
    \A i \in Invocations :
        (/\ fire[i].pc # "idle"
         /\ fire[i].value
         /\ fire[i].arrived_during)
            => /\ fire[i].pc \notin {"fire_call", "sleep", "restore_call"}
               /\ fire[i].call = <<>>

(***************************************************************************)
(* Properties of long-press mode switching                                 *)
(***************************************************************************)
\* C40: a press toggles the mode of its channel at most once; a press that
\* ended (by a release or by another press) before one second had elapsed
\* has not toggled it; a press that ended after more than one second had
\* toggled it exactly once.
C40_ToggledOncePerHeldPress ==
    \A k \in DOMAIN presses :
        /\ presses[k].toggled <= 1
        /\ presses[k].ended # <<>> =>
              IF presses[k].ended[1] - presses[k].time < 1
              THEN presses[k].toggled = 0
              ELSE presses[k].ended[1] - presses[k].time > 1 => presses[k].toggled = 1

====
